---------------------------- MODULE Spec2Model ----------------------------
(***************************************************************************)
(* Model of the availability engine of backend/availability.py:            *)
(* _parse_busy_blocks, _generate_candidates, _round_up_to_increment,       *)
(* _overlaps_any, find_available_slots and check_conflicts.                *)
(*                                                                         *)
(* A datetime is a record [sec, us, tz]: sec is the wall-clock reading in  *)
(* whole seconds counted from 00:00 of a Monday (day 0), us the            *)
(* microsecond field and tz its tzinfo, [aware, off] with off the UTC      *)
(* offset in minutes (NoTz for a naive datetime).  Aware datetimes are     *)
(* ordered by their UTC instant, as Python orders them.                    *)
(***************************************************************************)
EXTENDS Integers, Sequences, FiniteSets, TLC

VARIABLES
    busy_blocks,    \* the caller's list of busy-block records
    op,             \* the entry point running: "none", "find", "check", "round"
    pc,             \* position inside it
    search_start, search_end, duration_min, work_start, work_end, max_results,
    event_start, event_end,     \* arguments of check_conflicts
    busy,           \* local: _parse_busy_blocks' result
    candidates,     \* local: _generate_candidates' result
    available,      \* local: the accepted (slot_start, slot_end) pairs
    results,        \* return value of find_available_slots
    conflicts,      \* return value of check_conflicts
    raised,         \* exception that left the entry point ("" when none)
    round_in, round_out,        \* argument and result of _round_up_to_increment
    now, timeframe, \* the clock reading and the argument of timeframe_to_range
    callers,        \* the call frame of each concurrent caller
    gen_frame,      \* the loop cursors of _generate_candidates, step by step
    api             \* a Google API call: token file, requests sent, position

vars == <<busy_blocks, op, pc, search_start, search_end, duration_min,
          work_start, work_end, max_results, event_start, event_end, busy,
          candidates, available, results, conflicts, raised, round_in,
          round_out, now, timeframe, callers, gen_frame, api>>

---------------------------------------------------------------------------
(* Bounds of the model *)

\* longest busy-block list drawn
MaxBlocks == 2
\* largest max_results drawn
MaxResultsArg == 3

---------------------------------------------------------------------------
(* Program constants *)

SLOT_INCREMENT_MIN == 30
MAX_SUGGESTIONS == 3
\* time(9, 0) and time(17, 0) as seconds of the day
DEFAULT_WORK_START == 9 * 3600
DEFAULT_WORK_END == 17 * 3600
\* utcoffset of DEFAULT_TZ, minutes (America/New_York on standard time; the
\* modelled days hold no DST change)
DEFAULT_TZ == [aware |-> TRUE, off |-> 0 - 300]

NoTz == [aware |-> FALSE, off |-> 0]
FixedOffset(minutes) == [aware |-> TRUE, off |-> minutes]
SecPerDay == 24 * 3600

---------------------------------------------------------------------------
(* datetime arithmetic and comparison *)

DT(d, hh, mm, ss, us, tz) ==
    [sec |-> d * SecPerDay + hh * 3600 + mm * 60 + ss, us |-> us, tz |-> tz]

Utc(dt) == dt.sec - dt.tz.off * 60

\* datetime.__lt__ / __le__ / __eq__ on aware datetimes
Lt(a, b) == Utc(a) < Utc(b) \/ (Utc(a) = Utc(b) /\ a.us < b.us)
Le(a, b) == ~Lt(b, a)
Eq(a, b) == Utc(a) = Utc(b) /\ a.us = b.us

\* dt + timedelta(minutes=m)
AddMinutes(dt, m) == [dt EXCEPT !.sec = @ + 60 * m]

\* dt.replace(tzinfo=tz) when dt.tzinfo is None
EnsureAware(dt, tz) == IF ~dt.tz.aware THEN [dt EXCEPT !.tz = tz] ELSE dt

\* dt.date() as a day number, date.weekday() (Monday = 0)
DateOf(dt) == dt.sec \div SecPerDay
Weekday(d) == d % 7

\* datetime.combine(date, time, tzinfo=tz)
Combine(d, t, tz) == [sec |-> d * SecPerDay + t, us |-> 0, tz |-> tz]

\* max(a, b) and min(a, b): the first argument wins a tie
PyMax(a, b) == IF Lt(a, b) THEN b ELSE a
PyMin(a, b) == IF Lt(b, a) THEN b ELSE a

Hour(dt) == (dt.sec \div 3600) % 24
Minute(dt) == (dt.sec \div 60) % 60
Second(dt) == dt.sec % 60

\* dt.strftime("%I:%M %p")
Strftime(dt) ==
    [hour12 |-> IF Hour(dt) % 12 = 0 THEN 12 ELSE Hour(dt) % 12,
     minute |-> Minute(dt),
     ampm   |-> IF Hour(dt) < 12 THEN "AM" ELSE "PM"]

---------------------------------------------------------------------------
(* Busy-block records and datetime.fromisoformat                            *)
(*                                                                         *)
(* The value under a key is [kind |-> "absent"] (no such key),             *)
(* [kind |-> "null"] (None), [kind |-> "text", s |-> ...] (a string that   *)
(* is not shaped like a date-time) or [kind |-> "iso", ...], a string      *)
(* shaped YYYY-MM-DDTHH:MM:SS[.ffffff][+HH:MM] given by its digit groups.  *)

Absent == [kind |-> "absent"]
Null == [kind |-> "null"]
Text(s) == [kind |-> "text", s |-> s]
Iso(d, hh, mm, ss, us, tz) ==
    [kind |-> "iso", d |-> d, hh |-> hh, mm |-> mm, ss |-> ss, us |-> us,
     tz |-> tz]

\* the tzinfo an ISO string's offset suffix stands for
OffsetOf(suffix) ==
    CASE suffix = "" -> NoTz
      [] suffix = "-05:00" -> FixedOffset(0 - 300)
      [] suffix = "+00:00" -> FixedOffset(0)
      [] suffix = "+01:00" -> FixedOffset(60)

\* block[key] followed by datetime.fromisoformat: the datetime, or the
\* exception raised
FromIsoformat(v) ==
    CASE v.kind = "absent" -> [exc |-> "KeyError"]
      [] v.kind = "null" -> [exc |-> "TypeError"]
      [] v.kind = "text" -> [exc |-> "ValueError"]
      [] v.kind = "iso" ->
            IF v.hh > 23 \/ v.mm > 59 \/ v.ss > 59
            THEN [exc |-> "ValueError"]
            ELSE [exc |-> "",
                  dt |-> DT(v.d, v.hh, v.mm, v.ss, v.us, OffsetOf(v.tz))]

\* block.get("title", "Busy")
GetTitle(block) == IF block.title.kind = "absent" THEN "Busy" ELSE block.title.s

---------------------------------------------------------------------------
(* _parse_busy_blocks *)

\* ParseLoop with the except clause leaving the loop (break for continue)
RECURSIVE ParseLoop_StopAtBad(_, _, _, _)
ParseLoop_StopAtBad(blocks, i, parsed, tz) ==
    IF i > Len(blocks) THEN [exc |-> "", value |-> parsed]
    ELSE
        LET start == FromIsoformat(blocks[i].start) IN
        IF start.exc \in {"KeyError", "ValueError"}
        THEN [exc |-> "", value |-> parsed]
        ELSE IF start.exc # "" THEN [exc |-> start.exc, value |-> <<>>]
        ELSE
            LET end == FromIsoformat(blocks[i].end) IN
            IF end.exc \in {"KeyError", "ValueError"}
            THEN [exc |-> "", value |-> parsed]
            ELSE IF end.exc # "" THEN [exc |-> end.exc, value |-> <<>>]
            ELSE ParseLoop_StopAtBad(blocks, i + 1,
                           Append(parsed, <<EnsureAware(start.dt, tz),
                                            EnsureAware(end.dt, tz)>>),
                           tz)

\* one pass of the for loop over blocks[i..]: a KeyError or ValueError skips
\* the block, any other exception leaves the function
RECURSIVE ParseLoop(_, _, _, _)
ParseLoop(blocks, i, parsed, tz) ==
    IF i > Len(blocks) THEN [exc |-> "", value |-> parsed]
    ELSE
        LET start == FromIsoformat(blocks[i].start) IN
        IF start.exc \in {"KeyError", "ValueError"}
        THEN ParseLoop(blocks, i + 1, parsed, tz)
        ELSE IF start.exc # "" THEN [exc |-> start.exc, value |-> <<>>]
        ELSE
            LET end == FromIsoformat(blocks[i].end) IN
            IF end.exc \in {"KeyError", "ValueError"}
            THEN ParseLoop(blocks, i + 1, parsed, tz)
            ELSE IF end.exc # "" THEN [exc |-> end.exc, value |-> <<>>]
            ELSE ParseLoop(blocks, i + 1,
                           Append(parsed, <<EnsureAware(start.dt, tz),
                                            EnsureAware(end.dt, tz)>>),
                           tz)

\* InsertByStart putting x ahead of the elements with an equal key
RECURSIVE InsertByStart_AheadOfEqual(_, _)
InsertByStart_AheadOfEqual(sorted, x) ==
    IF sorted = <<>> THEN <<x>>
    ELSE IF Le(x[1], sorted[Len(sorted)][1])
         THEN Append(InsertByStart_AheadOfEqual(
                         SubSeq(sorted, 1, Len(sorted) - 1), x),
                     sorted[Len(sorted)])
         ELSE Append(sorted, x)

\* x goes behind every element whose key is not greater than its own
RECURSIVE InsertByStart(_, _)
InsertByStart(sorted, x) ==
    IF sorted = <<>> THEN <<x>>
    ELSE IF Lt(x[1], sorted[Len(sorted)][1])
         THEN Append(InsertByStart(SubSeq(sorted, 1, Len(sorted) - 1), x),
                     sorted[Len(sorted)])
         ELSE Append(sorted, x)

\* parsed.sort(key=lambda x: x[0]): a stable sort by start
RECURSIVE SortByStart(_)
SortByStart(parsed) ==
    IF parsed = <<>> THEN <<>>
    ELSE InsertByStart(SortByStart(SubSeq(parsed, 1, Len(parsed) - 1)),
                       parsed[Len(parsed)])

\* a list without the elements equal to an earlier one
RECURSIVE WithoutRepeats(_)
WithoutRepeats(seq) ==
    IF seq = <<>> THEN <<>>
    ELSE LET front == WithoutRepeats(SubSeq(seq, 1, Len(seq) - 1))
             last == seq[Len(seq)]
         IN IF \E k \in 1..Len(front) : front[k] = last THEN front
            ELSE Append(front, last)

\* ParseBusyBlocks dropping an interval it already holds
ParseBusyBlocks_Dedup(blocks, tz) ==
    LET r == ParseLoop(blocks, 1, <<>>, tz) IN
    IF r.exc # "" THEN r
    ELSE [exc |-> "", value |-> SortByStart(WithoutRepeats(r.value))]

ParseBusyBlocks(blocks, tz) ==
    LET r == ParseLoop(blocks, 1, <<>>, tz) IN
    IF r.exc # "" THEN r ELSE [exc |-> "", value |-> SortByStart(r.value)]

---------------------------------------------------------------------------
(* _round_up_to_increment, _generate_candidates, _overlaps_any *)

\* RoundUpToIncrement looking at the minute only
RoundUpToIncrement_MinuteOnly(dt, increment_min) ==
    LET remainder == Minute(dt) % increment_min IN
    IF remainder = 0 THEN dt
    ELSE [dt EXCEPT !.sec = (@ - Second(dt)) + 60 * (increment_min - remainder),
                    !.us = 0]

RoundUpToIncrement(dt, increment_min) ==
    LET remainder == Minute(dt) % increment_min IN
    IF remainder = 0 /\ Second(dt) = 0 /\ dt.us = 0 THEN dt
    ELSE [dt EXCEPT !.sec = (@ - Second(dt)) + 60 * (increment_min - remainder),
                    !.us = 0]

\* SlotLoop with < for <= in the loop condition
RECURSIVE SlotLoop_Strict(_, _, _)
SlotLoop_Strict(slot_start, day_limit, dur) ==
    IF Lt(AddMinutes(slot_start, dur), day_limit)
    THEN <<<<slot_start, AddMinutes(slot_start, dur)>>>>
         \o SlotLoop_Strict(AddMinutes(slot_start, SLOT_INCREMENT_MIN),
                            day_limit, dur)
    ELSE <<>>

\* SlotLoop stepping by the duration: the slots of a day do not overlap
RECURSIVE SlotLoop_StrideDuration(_, _, _)
SlotLoop_StrideDuration(slot_start, day_limit, dur) ==
    IF Le(AddMinutes(slot_start, dur), day_limit)
    THEN <<<<slot_start, AddMinutes(slot_start, dur)>>>>
         \o SlotLoop_StrideDuration(AddMinutes(slot_start, dur), day_limit, dur)
    ELSE <<>>

\* the inner while loop of one day
RECURSIVE SlotLoop(_, _, _)
SlotLoop(slot_start, day_limit, dur) ==
    IF Le(AddMinutes(slot_start, dur), day_limit)
    THEN <<<<slot_start, AddMinutes(slot_start, dur)>>>>
         \o SlotLoop(AddMinutes(slot_start, SLOT_INCREMENT_MIN), day_limit, dur)
    ELSE <<>>

\* DaySlots with day_limit = day_end: the search end is not looked at
DaySlots_Unclipped(current_date, s_start, s_end, dur, w_start, w_end, tz) ==
    LET day_start == Combine(current_date, w_start, tz)
        day_end == Combine(current_date, w_end, tz)
        slot_start == RoundUpToIncrement(PyMax(day_start, s_start),
                                         SLOT_INCREMENT_MIN)
    IN SlotLoop(slot_start, day_end, dur)

\* DaySlots with slot_start = day_start: the search start is not looked at
DaySlots_FromDayStart(current_date, s_start, s_end, dur, w_start, w_end, tz) ==
    LET day_start == Combine(current_date, w_start, tz)
        day_end == Combine(current_date, w_end, tz)
        slot_start == RoundUpToIncrement(day_start, SLOT_INCREMENT_MIN)
        day_limit == PyMin(day_end, s_end)
    IN SlotLoop(slot_start, day_limit, dur)

\* the candidates of one business day
DaySlots(current_date, s_start, s_end, dur, w_start, w_end, tz) ==
    LET day_start == Combine(current_date, w_start, tz)
        day_end == Combine(current_date, w_end, tz)
        slot_start == RoundUpToIncrement(PyMax(day_start, s_start),
                                         SLOT_INCREMENT_MIN)
        day_limit == PyMin(day_end, s_end)
    IN SlotLoop(slot_start, day_limit, dur)

\* DayLoop with weekday() > 5 for weekday() >= 5: Saturday is not skipped
RECURSIVE DayLoop_SundayOnly(_, _, _, _, _, _, _, _)
DayLoop_SundayOnly(current_date, end_date, s_start, s_end, dur, w_start, w_end, tz) ==
    IF current_date > end_date THEN <<>>
    ELSE IF Weekday(current_date) > 5
         THEN DayLoop_SundayOnly(current_date + 1, end_date, s_start, s_end,
                                 dur, w_start, w_end, tz)
         ELSE DaySlots(current_date, s_start, s_end, dur, w_start, w_end, tz)
              \o DayLoop_SundayOnly(current_date + 1, end_date, s_start,
                                    s_end, dur, w_start, w_end, tz)

\* the outer while loop from current_date on
RECURSIVE DayLoop(_, _, _, _, _, _, _, _)
DayLoop(current_date, end_date, s_start, s_end, dur, w_start, w_end, tz) ==
    IF current_date > end_date THEN <<>>
    ELSE IF Weekday(current_date) >= 5
         THEN DayLoop(current_date + 1, end_date, s_start, s_end, dur,
                      w_start, w_end, tz)
         ELSE DaySlots(current_date, s_start, s_end, dur, w_start, w_end, tz)
              \o DayLoop(current_date + 1, end_date, s_start, s_end, dur,
                         w_start, w_end, tz)

GenerateCandidates(s_start, s_end, dur, w_start, w_end, tz) ==
    LET a == EnsureAware(s_start, tz)
        b == EnsureAware(s_end, tz)
    IN DayLoop(DateOf(a), DateOf(b), a, b, dur, w_start, w_end, tz)

\* OverlapsAny with "return False" inside the loop: only the first busy
\* block is looked at
OverlapsAny_FirstOnly(slot_start, slot_end, busy_list) ==
    /\ busy_list # <<>>
    /\ Lt(slot_start, busy_list[1][2]) /\ Lt(busy_list[1][1], slot_end)

\* OverlapsAny asking only whether the slot starts inside a busy block
OverlapsAny_StartInside(slot_start, slot_end, busy_list) ==
    \E k \in 1..Len(busy_list) :
        Le(busy_list[k][1], slot_start) /\ Lt(slot_start, busy_list[k][2])

\* OverlapsAny with <= and >=: touching endpoints count as overlap
OverlapsAny_Closed(slot_start, slot_end, busy_list) ==
    \E k \in 1..Len(busy_list) :
        Le(slot_start, busy_list[k][2]) /\ Le(busy_list[k][1], slot_end)

OverlapsAny(slot_start, slot_end, busy_list) ==
    \E k \in 1..Len(busy_list) :
        Lt(slot_start, busy_list[k][2]) /\ Lt(busy_list[k][1], slot_end)

---------------------------------------------------------------------------
(* find_available_slots: the filter loop and the formatting of the result *)

\* FilterLoop with > for >= in the break condition
RECURSIVE FilterLoop_LateBreak(_, _, _, _, _)
FilterLoop_LateBreak(cands, i, avail, busy_list, max) ==
    IF i > Len(cands) THEN avail
    ELSE
        LET next == IF ~OverlapsAny(cands[i][1], cands[i][2], busy_list)
                    THEN Append(avail, cands[i])
                    ELSE avail
        IN IF Len(next) > max THEN next
           ELSE FilterLoop_LateBreak(cands, i + 1, next, busy_list, max)

\* FilterLoop with available.insert(0, ...) for available.append(...)
RECURSIVE FilterLoop_Prepends(_, _, _, _, _)
FilterLoop_Prepends(cands, i, avail, busy_list, max) ==
    IF i > Len(cands) THEN avail
    ELSE
        LET next == IF ~OverlapsAny(cands[i][1], cands[i][2], busy_list)
                    THEN <<cands[i]>> \o avail
                    ELSE avail
        IN IF Len(next) >= max THEN next
           ELSE FilterLoop_Prepends(cands, i + 1, next, busy_list, max)

\* FilterLoop that also passes over a candidate overlapping an accepted slot
RECURSIVE FilterLoop_ApartFromAccepted(_, _, _, _, _)
FilterLoop_ApartFromAccepted(cands, i, avail, busy_list, max) ==
    IF i > Len(cands) THEN avail
    ELSE
        LET next == IF /\ ~OverlapsAny(cands[i][1], cands[i][2], busy_list)
                       /\ ~OverlapsAny(cands[i][1], cands[i][2], avail)
                    THEN Append(avail, cands[i])
                    ELSE avail
        IN IF Len(next) >= max THEN next
           ELSE FilterLoop_ApartFromAccepted(cands, i + 1, next, busy_list, max)

\* for slot_start, slot_end in candidates[i..]: accept a free candidate, then
\* break once len(available) >= max_results
RECURSIVE FilterLoop(_, _, _, _, _)
FilterLoop(cands, i, avail, busy_list, max) ==
    IF i > Len(cands) THEN avail
    ELSE
        LET next == IF ~OverlapsAny(cands[i][1], cands[i][2], busy_list)
                    THEN Append(avail, cands[i])
                    ELSE avail
        IN IF Len(next) >= max THEN next
           ELSE FilterLoop(cands, i + 1, next, busy_list, max)

\* chr(n) for the code points 65..91
Ascii ==
    <<"A", "B", "C", "D", "E", "F", "G", "H", "I", "J", "K", "L", "M", "N",
      "O", "P", "Q", "R", "S", "T", "U", "V", "W", "X", "Y", "Z", "[">>
Chr(n) == Ascii[n - 64]

\* the offset suffix isoformat() writes
OffsetText(tz) ==
    CASE ~tz.aware -> ""
      [] tz.aware /\ tz.off = 0 - 300 -> "-05:00"
      [] tz.aware /\ tz.off = 0 -> "+00:00"
      [] tz.aware /\ tz.off = 60 -> "+01:00"

\* dt.isoformat()
Isoformat(dt) ==
    Iso(DateOf(dt), Hour(dt), Minute(dt), Second(dt), dt.us, OffsetText(dt.tz))

\* dt.astimezone(tz)
AsTimezone(dt, tz) ==
    [dt EXCEPT !.sec = @ + (tz.off - dt.tz.off) * 60, !.tz = tz]

\* _format_display: "%a %b %d, %I:%M %p %Z" of the local time
FormatDisplay(dt, tz) ==
    LET local == AsTimezone(dt, tz) IN
    [weekday |-> Weekday(DateOf(local)), date |-> DateOf(local),
     time |-> Strftime(local), zone |-> OffsetText(tz)]

FormatResults(avail, dur, tz) ==
    [i \in 1..Len(avail) |->
        [label |-> <<"Option ", Chr(65 + (i - 1))>>,
         start |-> Isoformat(avail[i][1]),
         end |-> Isoformat(avail[i][2]),
         duration_min |-> dur,
         display |-> FormatDisplay(avail[i][1], tz)]]

---------------------------------------------------------------------------
(* check_conflicts *)

\* for block in busy_blocks[j..]: the title of the first block whose start
\* equals busy_start; found = FALSE is the loop's else branch
RECURSIVE TitleLookup(_, _, _, _)
TitleLookup(busy_start, blocks, j, tz) ==
    IF j > Len(blocks) THEN [exc |-> "", found |-> FALSE, title |-> "Busy"]
    ELSE
        LET bs == FromIsoformat(blocks[j].start) IN
        IF bs.exc \in {"KeyError", "ValueError"}
        THEN TitleLookup(busy_start, blocks, j + 1, tz)
        ELSE IF bs.exc # "" THEN [exc |-> bs.exc, found |-> FALSE, title |-> ""]
        ELSE IF Eq(EnsureAware(bs.dt, tz), busy_start)
             THEN [exc |-> "", found |-> TRUE, title |-> GetTitle(blocks[j])]
             ELSE TitleLookup(busy_start, blocks, j + 1, tz)

\* ConflictLoop with <= and >= in the overlap test: touching counts
RECURSIVE ConflictLoop_Closed(_, _, _, _, _, _, _)
ConflictLoop_Closed(parsed, k, acc, ev_start, ev_end, blocks, tz) ==
    IF k > Len(parsed) THEN [exc |-> "", value |-> acc]
    ELSE IF Le(ev_start, parsed[k][2]) /\ Le(parsed[k][1], ev_end)
         THEN LET t == TitleLookup(parsed[k][1], blocks, 1, tz) IN
              IF t.exc # "" THEN [exc |-> t.exc, value |-> <<>>]
              ELSE ConflictLoop_Closed(parsed, k + 1,
                                Append(acc, [title |-> t.title,
                                             start |-> Strftime(parsed[k][1]),
                                             end |-> Strftime(parsed[k][2])]),
                                ev_start, ev_end, blocks, tz)
         ELSE ConflictLoop_Closed(parsed, k + 1, acc, ev_start, ev_end, blocks,
                                  tz)

\* ConflictLoop with half the overlap test: event_start < busy_end alone
RECURSIVE ConflictLoop_StartOnly(_, _, _, _, _, _, _)
ConflictLoop_StartOnly(parsed, k, acc, ev_start, ev_end, blocks, tz) ==
    IF k > Len(parsed) THEN [exc |-> "", value |-> acc]
    ELSE IF Lt(ev_start, parsed[k][2])
         THEN LET t == TitleLookup(parsed[k][1], blocks, 1, tz) IN
              IF t.exc # "" THEN [exc |-> t.exc, value |-> <<>>]
              ELSE ConflictLoop_StartOnly(parsed, k + 1,
                                Append(acc, [title |-> t.title,
                                             start |-> Strftime(parsed[k][1]),
                                             end |-> Strftime(parsed[k][2])]),
                                ev_start, ev_end, blocks, tz)
         ELSE ConflictLoop_StartOnly(parsed, k + 1, acc, ev_start, ev_end,
                                     blocks, tz)

\* for busy_start, busy_end in parsed[k..]
RECURSIVE ConflictLoop(_, _, _, _, _, _, _)
ConflictLoop(parsed, k, acc, ev_start, ev_end, blocks, tz) ==
    IF k > Len(parsed) THEN [exc |-> "", value |-> acc]
    ELSE IF Lt(ev_start, parsed[k][2]) /\ Lt(parsed[k][1], ev_end)
         THEN LET t == TitleLookup(parsed[k][1], blocks, 1, tz) IN
              IF t.exc # "" THEN [exc |-> t.exc, value |-> <<>>]
              ELSE ConflictLoop(parsed, k + 1,
                                Append(acc, [title |-> t.title,
                                             start |-> Strftime(parsed[k][1]),
                                             end |-> Strftime(parsed[k][2])]),
                                ev_start, ev_end, blocks, tz)
         ELSE ConflictLoop(parsed, k + 1, acc, ev_start, ev_end, blocks, tz)

---------------------------------------------------------------------------
(* timeframe_to_range                                                      *)
(*                                                                         *)
(* The argument is None or a string, given as its words in lower case      *)
(* (body), whether it is written in capitals (caps) and whether white      *)
(* space surrounds it (pad).                                               *)

NoTimeframe == [kind |-> "none", body |-> "", caps |-> FALSE, pad |-> FALSE]
Str(body, caps, pad) ==
    [kind |-> "str", body |-> body, caps |-> caps, pad |-> pad]

\* (timeframe or "").lower().strip()
LowerStrip(t) == IF t.kind = "none" THEN "" ELSE t.body

\* dt + timedelta(days=n)
AddDays(dt, n) == [dt EXCEPT !.sec = @ + n * SecPerDay]

\* time(0, 0) and time(23, 59) as seconds of the day
Midnight == 0 * 3600
EndOfDay == 23 * 3600 + 59 * 60

day_names ==
    <<"monday", "tuesday", "wednesday", "thursday", "friday", "saturday",
      "sunday">>

\* day_names.index(tf)
IndexOf(tf) == (CHOOSE i \in 1..Len(day_names) : day_names[i] = tf) - 1

\* TimeframeToRange with the window its comment names, three days
TimeframeToRange_ThreeDays(t, clock, tz) ==
    LET tf == LowerStrip(t)
        today == DateOf(clock)
        wd == Weekday(today)
    IN
    IF tf = "today"
    THEN <<clock, Combine(today, EndOfDay, tz)>>
    ELSE IF tf = "tomorrow"
    THEN LET tmr == DateOf(AddDays(clock, 1)) IN
         <<Combine(tmr, Midnight, tz), Combine(tmr, EndOfDay, tz)>>
    ELSE IF tf = "this week"
    THEN LET days_until_friday == IF 4 - wd < 0 THEN 0 ELSE 4 - wd
             friday == DateOf(AddDays(clock, days_until_friday))
         IN <<clock, Combine(friday, EndOfDay, tz)>>
    ELSE IF tf = "next week"
    THEN LET days_until_monday == IF wd = 0 THEN 7 ELSE 7 - wd
             monday == DateOf(AddDays(clock, days_until_monday))
             friday == monday + 4
         IN <<Combine(monday, Midnight, tz), Combine(friday, EndOfDay, tz)>>
    ELSE IF \E i \in 1..Len(day_names) : day_names[i] = tf
    THEN LET diff == IndexOf(tf) - wd
             days_ahead == IF diff <= 0 THEN diff + 7 ELSE diff
             target_date == DateOf(AddDays(clock, days_ahead))
         IN <<Combine(target_date, Midnight, tz),
              Combine(target_date, EndOfDay, tz)>>
    ELSE <<clock, AddDays(clock, 3)>>

\* TimeframeToRange without the clamp of days_until_friday at zero
TimeframeToRange_NoClamp(t, clock, tz) ==
    LET tf == LowerStrip(t)
        today == DateOf(clock)
        wd == Weekday(today)
    IN
    IF tf = "today"
    THEN <<clock, Combine(today, EndOfDay, tz)>>
    ELSE IF tf = "tomorrow"
    THEN LET tmr == DateOf(AddDays(clock, 1)) IN
         <<Combine(tmr, Midnight, tz), Combine(tmr, EndOfDay, tz)>>
    ELSE IF tf = "this week"
    THEN LET days_until_friday == 4 - wd
             friday == DateOf(AddDays(clock, days_until_friday))
         IN <<clock, Combine(friday, EndOfDay, tz)>>
    ELSE IF tf = "next week"
    THEN LET days_until_monday == IF wd = 0 THEN 7 ELSE 7 - wd
             monday == DateOf(AddDays(clock, days_until_monday))
             friday == monday + 4
         IN <<Combine(monday, Midnight, tz), Combine(friday, EndOfDay, tz)>>
    ELSE IF \E i \in 1..Len(day_names) : day_names[i] = tf
    THEN LET diff == IndexOf(tf) - wd
             days_ahead == IF diff <= 0 THEN diff + 7 ELSE diff
             target_date == DateOf(AddDays(clock, days_ahead))
         IN <<Combine(target_date, Midnight, tz),
              Combine(target_date, EndOfDay, tz)>>
    ELSE <<clock, AddDays(clock, 5)>>

\* TimeframeToRange with days_ahead < 0 for days_ahead <= 0: a weekday name
\* asked on that weekday means today
TimeframeToRange_TodayCounts(t, clock, tz) ==
    LET tf == LowerStrip(t)
        today == DateOf(clock)
        wd == Weekday(today)
    IN
    IF tf = "today"
    THEN <<clock, Combine(today, EndOfDay, tz)>>
    ELSE IF tf = "tomorrow"
    THEN LET tmr == DateOf(AddDays(clock, 1)) IN
         <<Combine(tmr, Midnight, tz), Combine(tmr, EndOfDay, tz)>>
    ELSE IF tf = "this week"
    THEN LET days_until_friday == IF 4 - wd < 0 THEN 0 ELSE 4 - wd
             friday == DateOf(AddDays(clock, days_until_friday))
         IN <<clock, Combine(friday, EndOfDay, tz)>>
    ELSE IF tf = "next week"
    THEN LET days_until_monday == IF wd = 0 THEN 7 ELSE 7 - wd
             monday == DateOf(AddDays(clock, days_until_monday))
             friday == monday + 4
         IN <<Combine(monday, Midnight, tz), Combine(friday, EndOfDay, tz)>>
    ELSE IF \E i \in 1..Len(day_names) : day_names[i] = tf
    THEN LET diff == IndexOf(tf) - wd
             days_ahead == IF diff < 0 THEN diff + 7 ELSE diff
             target_date == DateOf(AddDays(clock, days_ahead))
         IN <<Combine(target_date, Midnight, tz),
              Combine(target_date, EndOfDay, tz)>>
    ELSE <<clock, AddDays(clock, 5)>>

\* timeframe_to_range, with clock the value of datetime.now(tz)
TimeframeToRange(t, clock, tz) ==
    LET tf == LowerStrip(t)
        today == DateOf(clock)
        wd == Weekday(today)
    IN
    IF tf = "today"
    THEN <<clock, Combine(today, EndOfDay, tz)>>
    ELSE IF tf = "tomorrow"
    THEN LET tmr == DateOf(AddDays(clock, 1)) IN
         <<Combine(tmr, Midnight, tz), Combine(tmr, EndOfDay, tz)>>
    ELSE IF tf = "this week"
    THEN LET days_until_friday == IF 4 - wd < 0 THEN 0 ELSE 4 - wd
             friday == DateOf(AddDays(clock, days_until_friday))
         IN <<clock, Combine(friday, EndOfDay, tz)>>
    ELSE IF tf = "next week"
    THEN LET days_until_monday == IF wd = 0 THEN 7 ELSE 7 - wd
             monday == DateOf(AddDays(clock, days_until_monday))
             friday == monday + 4
         IN <<Combine(monday, Midnight, tz), Combine(friday, EndOfDay, tz)>>
    ELSE IF \E i \in 1..Len(day_names) : day_names[i] = tf
    THEN LET diff == IndexOf(tf) - wd
             days_ahead == IF diff <= 0 THEN diff + 7 ELSE diff
             target_date == DateOf(AddDays(clock, days_ahead))
         IN <<Combine(target_date, Midnight, tz),
              Combine(target_date, EndOfDay, tz)>>
    ELSE <<clock, AddDays(clock, 5)>>

---------------------------------------------------------------------------
(* get_mock_busy_blocks *)

MockBlock(title, d, h1, m1, h2, m2, tz) ==
    [title |-> Text(title),
     start |-> Isoformat(DT(d, h1, m1, 0, 0, tz)),
     end |-> Isoformat(DT(d, h2, m2, 0, 0, tz))]

GetMockBusyBlocks(target_date, tz) ==
    LET d == DateOf(target_date) IN
    IF Weekday(d) >= 5 THEN <<>>
    ELSE << MockBlock("Morning Standup", d, 9, 0, 9, 30, tz),
            MockBlock("Team Sync", d, 10, 0, 11, 0, tz),
            MockBlock("Lunch Break", d, 12, 0, 13, 0, tz),
            MockBlock("1-on-1 with Manager", d, 15, 0, 15, 30, tz) >>

---------------------------------------------------------------------------
(* Inputs drawn.  Day 4 is a Friday, 5 and 6 the weekend, 7 a Monday. *)

Naive(d, hh, mm) == Iso(d, hh, mm, 0, 0, "")

Records ==
    { [title |-> Text("Standup"), start |-> Naive(4, 9, 0),
       end |-> Naive(4, 9, 30)],
      \* same start as Standup, no title, longer
      [title |-> Absent, start |-> Naive(4, 9, 0), end |-> Naive(4, 10, 0)],
      \* same start as Standup, no end
      [title |-> Text("Broken"), start |-> Naive(4, 9, 0), end |-> Absent],
      \* 10:00-11:00 local, written with a UTC offset
      [title |-> Text("Sync"), start |-> Iso(4, 15, 0, 0, 0, "+00:00"),
       end |-> Iso(4, 16, 0, 0, 0, "+00:00")],
      \* unparsable start; the end is never looked at
      [title |-> Absent, start |-> Text("soon"), end |-> Null],
      \* minute 60 is no time of day
      [title |-> Absent, start |-> Naive(4, 9, 60), end |-> Naive(4, 11, 0)],
      \* a null end
      [title |-> Text("Nil"), start |-> Naive(4, 9, 30), end |-> Null],
      \* Monday 09:00 to one microsecond past 09:30
      [title |-> Text("Monday"), start |-> Iso(7, 9, 0, 0, 0, "-05:00"),
       end |-> Iso(7, 9, 30, 0, 1, "-05:00")] }

\* a record with its end half an hour before its start
Backwards ==
    [title |-> Text("Backwards"), start |-> Naive(4, 10, 0),
     end |-> Naive(4, 9, 30)]

RECURSIVE ListsUpTo(_)
ListsUpTo(n) ==
    IF n = 0 THEN {<<>>}
    ELSE LET shorter == ListsUpTo(n - 1) IN
         shorter \cup {Append(l, r) : l \in {x \in shorter : Len(x) = n - 1},
                                      r \in Records}

BlockLists == ListsUpTo(MaxBlocks)

SearchStarts ==
    { DT(4, 8, 0, 0, 0, NoTz), DT(4, 9, 7, 0, 0, DEFAULT_TZ),
      DT(4, 16, 0, 30, 500000, DEFAULT_TZ), DT(5, 10, 0, 0, 0, DEFAULT_TZ) }
\* the last two are Monday 10:00 and Monday 18:59 local
SearchEnds ==
    { DT(4, 10, 15, 0, 0, DEFAULT_TZ), DT(5, 23, 59, 0, 0, NoTz),
      DT(7, 15, 0, 0, 0, FixedOffset(0)), DT(7, 23, 59, 0, 0, FixedOffset(0)) }
Durations == {30, 60}
\* max_results: the small values, the default, and one result per uppercase
\* letter
MaxResultsDrawn == (0..MaxResultsArg) \cup {MAX_SUGGESTIONS, Len(Ascii) - 1}
WorkHours == {<<DEFAULT_WORK_START, DEFAULT_WORK_END>>}
\* working hours that end when or before they start
InvalidWorkHours ==
    { <<DEFAULT_WORK_END, DEFAULT_WORK_START>>,
      <<DEFAULT_WORK_START, DEFAULT_WORK_START>> }

\* the argument tuples find_available_slots is called with
FindCalls ==
    (SearchStarts \X SearchEnds \X Durations \X WorkHours \X MaxResultsDrawn)
    \cup (SearchStarts \X SearchEnds \X {30} \X InvalidWorkHours
          \X {MAX_SUGGESTIONS})

Events ==
    { <<DT(4, 9, 15, 0, 0, DEFAULT_TZ), DT(4, 9, 45, 0, 0, DEFAULT_TZ)>>,
      <<DT(4, 9, 30, 0, 0, DEFAULT_TZ), DT(4, 10, 0, 0, 0, DEFAULT_TZ)>>,
      <<DT(4, 9, 45, 0, 0, DEFAULT_TZ), DT(4, 10, 30, 0, 0, DEFAULT_TZ)>>,
      <<DT(4, 10, 30, 0, 0, DEFAULT_TZ), DT(4, 11, 30, 0, 0, DEFAULT_TZ)>>,
      <<DT(7, 9, 30, 0, 0, DEFAULT_TZ), DT(7, 10, 0, 0, 0, DEFAULT_TZ)>> }

RoundInputs ==
    { DT(4, hh, mm, ss, us, DEFAULT_TZ) :
        hh \in {9, 23}, mm \in 0..59, ss \in {0, 30, 59}, us \in {0, 1, 999999} }

---------------------------------------------------------------------------
(* The state machine *)

\* a datetime variable not assigned yet
None == [sec |-> 0, us |-> 0, tz |-> NoTz]

\* the token file: absent or unreadable, or a JSON object whose access_token
\* and refresh_token may be missing ("")
NoTokenFile == [present |-> FALSE, access_token |-> "", refresh_token |-> ""]
TokenFile(access, refresh) ==
    [present |-> TRUE, access_token |-> access, refresh_token |-> refresh]

\* no Google API call is in play
NoApi ==
    [pc |-> "idle", method |-> "", token_file |-> NoTokenFile, cfg |-> FALSE,
     original |-> NoTokenFile, token |-> "", saved |-> NoTokenFile,
     status |-> 0, requests |-> <<>>, responses |-> <<>>, refreshes |-> <<>>,
     outcome |-> ""]

\* the cursors before _generate_candidates sets them
NoFrame == [current_date |-> 0, slot_start |-> None, day_limit |-> None]

Fresh ==
    /\ pc = "idle"
    /\ search_start = None /\ search_end = None
    /\ duration_min = 0 /\ max_results = 0
    /\ work_start = 0 /\ work_end = 0
    /\ event_start = None /\ event_end = None
    /\ busy = <<>> /\ candidates = <<>> /\ available = <<>>
    /\ results = <<>> /\ conflicts = <<>>
    /\ raised = ""
    /\ round_out = None
    /\ gen_frame = NoFrame
    /\ api = NoApi

\* timeframe_to_range is not in play, and nobody calls concurrently
NoClock == now = None /\ timeframe = NoTimeframe /\ callers = <<>>

Init ==
    /\ busy_blocks \in BlockLists
    /\ op = "none"
    /\ round_in = None
    /\ NoClock
    /\ Fresh

\* find_available_slots is entered and _parse_busy_blocks runs (line 40)
FindParse ==
    /\ pc = "idle" /\ op = "none"
    /\ \E c \in FindCalls :
        /\ search_start' = c[1] /\ search_end' = c[2] /\ duration_min' = c[3]
        /\ work_start' = c[4][1] /\ work_end' = c[4][2] /\ max_results' = c[5]
    /\ op' = "find"
    /\ LET r == ParseBusyBlocks(busy_blocks, DEFAULT_TZ) IN
        /\ busy' = r.value
        /\ raised' = r.exc
        /\ pc' = IF r.exc = "" THEN "parsed" ELSE "raised"
    /\ UNCHANGED <<api, gen_frame, callers, now, timeframe, busy_blocks, event_start, event_end, candidates, available,
                   results, conflicts, round_in, round_out>>

\* lines 43-50
FindGenerate ==
    /\ pc = "parsed" /\ op = "find"
    /\ candidates' = GenerateCandidates(search_start, search_end, duration_min,
                                        work_start, work_end, DEFAULT_TZ)
    /\ pc' = "generated"
    /\ UNCHANGED <<api, gen_frame, callers, now, timeframe, busy_blocks, op, search_start, search_end, duration_min,
                   work_start, work_end, max_results, event_start, event_end,
                   busy, available, results, conflicts, raised, round_in,
                   round_out>>

\* lines 53-59
FindFilter ==
    /\ pc = "generated" /\ op = "find"
    /\ available' = FilterLoop(candidates, 1, <<>>, busy, max_results)
    /\ pc' = "filtered"
    /\ UNCHANGED <<api, gen_frame, callers, now, timeframe, busy_blocks, op, search_start, search_end, duration_min,
                   work_start, work_end, max_results, event_start, event_end,
                   busy, candidates, results, conflicts, raised, round_in,
                   round_out>>

\* FindFormat drawing one more candidate from the generator before it formats
FindFormat_GeneratesOneMore ==
    /\ pc = "filtered" /\ op = "find"
    /\ results' = FormatResults(available, duration_min, DEFAULT_TZ)
    /\ candidates' =
          Append(candidates,
                 <<search_end, AddMinutes(search_end, duration_min)>>)
    /\ pc' = "done"
    /\ UNCHANGED <<api, gen_frame, callers, now, timeframe, busy_blocks, op, search_start,
                   search_end, duration_min, work_start, work_end,
                   max_results, event_start, event_end, busy, available,
                   conflicts, raised, round_in, round_out>>

\* lines 62-75
FindFormat ==
    /\ pc = "filtered" /\ op = "find"
    /\ results' = FormatResults(available, duration_min, DEFAULT_TZ)
    /\ pc' = "done"
    /\ UNCHANGED <<api, gen_frame, callers, now, timeframe, busy_blocks, op, search_start, search_end, duration_min,
                   work_start, work_end, max_results, event_start, event_end,
                   busy, candidates, available, conflicts, raised, round_in,
                   round_out>>

\* check_conflicts, from entry to return or to the exception leaving it
CheckConflicts ==
    /\ pc = "idle" /\ op = "none"
    /\ \E ev \in Events :
        /\ event_start' = ev[1] /\ event_end' = ev[2]
        /\ LET p == ParseBusyBlocks(busy_blocks, DEFAULT_TZ)
               c == IF p.exc # "" THEN p
                    ELSE ConflictLoop(p.value, 1, <<>>, ev[1], ev[2],
                                      busy_blocks, DEFAULT_TZ)
           IN /\ busy' = p.value
              /\ conflicts' = c.value
              /\ raised' = c.exc
              /\ pc' = IF c.exc = "" THEN "done" ELSE "raised"
    /\ op' = "check"
    /\ UNCHANGED <<api, gen_frame, callers, now, timeframe, busy_blocks, search_start, search_end, duration_min,
                   work_start, work_end, max_results, candidates, available,
                   results, round_in, round_out>>

Next == FindParse \/ FindGenerate \/ FindFilter \/ FindFormat \/ CheckConflicts

Spec == Init /\ [][Next]_vars

\* the engine over the mock calendar of the day asked for
MockDates ==
    { DT(4, 8, 0, 0, 0, DEFAULT_TZ), DT(5, 10, 0, 0, 0, DEFAULT_TZ),
      DT(7, 0, 0, 0, 0, DEFAULT_TZ) }

InitMock ==
    /\ busy_blocks \in {GetMockBusyBlocks(t, DEFAULT_TZ) : t \in MockDates}
    /\ op = "none"
    /\ round_in = None
    /\ NoClock
    /\ Fresh

SpecMock == InitMock /\ [][Next]_vars

\* _round_up_to_increment on its own, as _generate_candidates calls it
InitRound ==
    /\ busy_blocks = <<>>
    /\ op = "round"
    /\ round_in \in RoundInputs
    /\ NoClock
    /\ Fresh

RoundUp ==
    /\ pc = "idle" /\ op = "round"
    /\ round_out' = RoundUpToIncrement(round_in, SLOT_INCREMENT_MIN)
    /\ pc' = "done"
    /\ UNCHANGED <<api, gen_frame, callers, now, timeframe, busy_blocks, op, search_start, search_end, duration_min,
                   work_start, work_end, max_results, event_start, event_end,
                   busy, candidates, available, results, conflicts, raised,
                   round_in>>

NextRound == RoundUp

SpecRound == InitRound /\ [][NextRound]_vars

\* timeframe_to_range on its own.  The clock reads a time of each day of
\* one week, Monday (day 0) to Sunday (day 6).
Nows ==
    { DT(d, t[1], t[2], t[3], t[4], DEFAULT_TZ) :
        d \in 0..6,
        t \in {<<0, 0, 0, 0>>, <<10, 15, 30, 500000>>, <<23, 59, 30, 0>>} }

Timeframes ==
    { NoTimeframe, Str("", FALSE, FALSE), Str("", FALSE, TRUE),
      Str("today", FALSE, FALSE), Str("today", TRUE, TRUE),
      Str("tomorrow", FALSE, FALSE), Str("this week", FALSE, FALSE),
      Str("next week", TRUE, FALSE), Str("this month", FALSE, FALSE),
      Str("next month", FALSE, FALSE), Str("in two weeks", FALSE, FALSE) }
    \cup {Str(day_names[i], FALSE, FALSE) : i \in 1..Len(day_names)}

InitTimeframe ==
    /\ busy_blocks = <<>>
    /\ op = "timeframe"
    /\ round_in = None
    /\ now \in Nows
    /\ timeframe \in Timeframes
    /\ callers = <<>>
    /\ Fresh

\* lines 195-253; the range is what the callers pass on as search_start and
\* search_end
TimeframeToRangeCall ==
    /\ pc = "idle" /\ op = "timeframe"
    /\ LET r == TimeframeToRange(timeframe, now, DEFAULT_TZ) IN
        /\ search_start' = r[1]
        /\ search_end' = r[2]
    /\ pc' = "done"
    /\ UNCHANGED <<api, gen_frame, callers, now, timeframe, busy_blocks, op, duration_min, work_start,
                   work_end, max_results, event_start, event_end, busy,
                   candidates, available, results, conflicts, raised,
                   round_in, round_out>>

NextTimeframe == TimeframeToRangeCall

SpecTimeframe == InitTimeframe /\ [][NextTimeframe]_vars

---------------------------------------------------------------------------
(* Concurrent callers of find_available_slots and check_conflicts over one *)
(* busy-block list.  The list is the callers' shared object; everything    *)
(* else a call touches is a local of its own frame.  A caller is           *)
(* rescheduled between the stages of its call.                             *)

NumCallers == 2
Callers == 1..NumCallers

\* find_available_slots from entry to return
FindAvailableSlots(blocks, s_start, s_end, dur, w_start, w_end, max, tz) ==
    LET p == ParseBusyBlocks(blocks, tz) IN
    IF p.exc # "" THEN [exc |-> p.exc, value |-> <<>>]
    ELSE LET cands == GenerateCandidates(s_start, s_end, dur, w_start, w_end,
                                         tz)
             avail == FilterLoop(cands, 1, <<>>, p.value, max)
         IN [exc |-> "", value |-> FormatResults(avail, dur, tz)]

\* check_conflicts from entry to return
CheckConflictsAlone(ev_start, ev_end, blocks, tz) ==
    LET p == ParseBusyBlocks(blocks, tz) IN
    IF p.exc # "" THEN [exc |-> p.exc, value |-> <<>>]
    ELSE ConflictLoop(p.value, 1, <<>>, ev_start, ev_end, blocks, tz)

\* a frame before its call; given is the list as the caller handed it over
IdleFrame ==
    [op |-> "none", pc |-> "idle", given |-> <<>>,
     search_start |-> None, search_end |-> None, duration_min |-> 0,
     work_start |-> 0, work_end |-> 0, max_results |-> 0,
     event_start |-> None, event_end |-> None,
     busy |-> <<>>, candidates |-> <<>>, available |-> <<>>,
     results |-> <<>>, conflicts |-> <<>>, raised |-> ""]

SharedRecords ==
    { r \in Records : r.title \in {Text("Standup"), Text("Broken"),
                                   Text("Sync"), Text("Nil")} }
    \cup {r \in Records : r.title = Absent /\ r.end = Naive(4, 10, 0)}
    \cup {Backwards}

SharedLists == UNION {[1..n -> SharedRecords] : n \in 0..MaxBlocks}

ConcurrentFinds ==
    { <<DT(4, 8, 0, 0, 0, NoTz), DT(4, 10, 15, 0, 0, DEFAULT_TZ), 30,
        <<DEFAULT_WORK_START, DEFAULT_WORK_END>>, MAX_SUGGESTIONS>>,
      <<DT(4, 9, 7, 0, 0, DEFAULT_TZ), DT(7, 15, 0, 0, 0, FixedOffset(0)), 60,
        <<DEFAULT_WORK_START, DEFAULT_WORK_END>>, 2>> }

ConcurrentEvents ==
    { <<DT(4, 9, 15, 0, 0, DEFAULT_TZ), DT(4, 9, 45, 0, 0, DEFAULT_TZ)>>,
      <<DT(4, 10, 30, 0, 0, DEFAULT_TZ), DT(4, 11, 30, 0, 0, DEFAULT_TZ)>> }

InitConcurrent ==
    /\ busy_blocks \in SharedLists
    /\ op = "concurrent"
    /\ round_in = None
    /\ now = None /\ timeframe = NoTimeframe
    /\ callers = [c \in Callers |-> IdleFrame]
    /\ Fresh

\* what no caller's step touches
engine_vars ==
    <<api, gen_frame, now, timeframe, op, pc, search_start, search_end, duration_min,
      work_start, work_end, max_results, event_start, event_end, busy,
      candidates, available, results, conflicts, raised, round_in, round_out>>

\* CallerFindParse taking the records off the caller's list as it reads them
CallerFindParse_DrainsArgument(c) ==
    /\ op = "concurrent" /\ callers[c].pc = "idle"
    /\ \E a \in ConcurrentFinds :
        LET r == ParseBusyBlocks(busy_blocks, DEFAULT_TZ) IN
        callers' = [callers EXCEPT ![c] =
            [@ EXCEPT !.op = "find", !.given = busy_blocks,
                      !.search_start = a[1], !.search_end = a[2],
                      !.duration_min = a[3], !.work_start = a[4][1],
                      !.work_end = a[4][2], !.max_results = a[5],
                      !.busy = r.value, !.raised = r.exc,
                      !.pc = IF r.exc = "" THEN "parsed" ELSE "raised"]]
    /\ busy_blocks' = <<>>
    /\ UNCHANGED engine_vars

\* find_available_slots, entry and line 40
CallerFindParse(c) ==
    /\ op = "concurrent" /\ callers[c].pc = "idle"
    /\ \E a \in ConcurrentFinds :
        LET r == ParseBusyBlocks(busy_blocks, DEFAULT_TZ) IN
        callers' = [callers EXCEPT ![c] =
            [@ EXCEPT !.op = "find", !.given = busy_blocks,
                      !.search_start = a[1], !.search_end = a[2],
                      !.duration_min = a[3], !.work_start = a[4][1],
                      !.work_end = a[4][2], !.max_results = a[5],
                      !.busy = r.value, !.raised = r.exc,
                      !.pc = IF r.exc = "" THEN "parsed" ELSE "raised"]]
    /\ UNCHANGED <<busy_blocks, engine_vars>>

\* lines 43-50
CallerFindGenerate(c) ==
    /\ op = "concurrent"
    /\ callers[c].op = "find" /\ callers[c].pc = "parsed"
    /\ LET f == callers[c] IN
       callers' = [callers EXCEPT ![c] =
            [@ EXCEPT !.candidates =
                          GenerateCandidates(f.search_start, f.search_end,
                                             f.duration_min, f.work_start,
                                             f.work_end, DEFAULT_TZ),
                      !.pc = "generated"]]
    /\ UNCHANGED <<busy_blocks, engine_vars>>

\* lines 53-59
CallerFindFilter(c) ==
    /\ op = "concurrent"
    /\ callers[c].op = "find" /\ callers[c].pc = "generated"
    /\ LET f == callers[c] IN
       callers' = [callers EXCEPT ![c] =
            [@ EXCEPT !.available = FilterLoop(f.candidates, 1, <<>>, f.busy,
                                               f.max_results),
                      !.pc = "filtered"]]
    /\ UNCHANGED <<busy_blocks, engine_vars>>

\* lines 62-75
CallerFindFormat(c) ==
    /\ op = "concurrent"
    /\ callers[c].op = "find" /\ callers[c].pc = "filtered"
    /\ LET f == callers[c] IN
       callers' = [callers EXCEPT ![c] =
            [@ EXCEPT !.results = FormatResults(f.available, f.duration_min,
                                                DEFAULT_TZ),
                      !.pc = "done"]]
    /\ UNCHANGED <<busy_blocks, engine_vars>>

\* check_conflicts, entry and line 321
CallerCheckParse(c) ==
    /\ op = "concurrent" /\ callers[c].pc = "idle"
    /\ \E ev \in ConcurrentEvents :
        LET r == ParseBusyBlocks(busy_blocks, DEFAULT_TZ) IN
        callers' = [callers EXCEPT ![c] =
            [@ EXCEPT !.op = "check", !.given = busy_blocks,
                      !.event_start = ev[1], !.event_end = ev[2],
                      !.busy = r.value, !.raised = r.exc,
                      !.pc = IF r.exc = "" THEN "parsed" ELSE "raised"]]
    /\ UNCHANGED <<busy_blocks, engine_vars>>

\* check_conflicts, the loop of lines 324-341, which reads the caller's list
\* again for the titles
CallerCheckLoop(c) ==
    /\ op = "concurrent"
    /\ callers[c].op = "check" /\ callers[c].pc = "parsed"
    /\ LET f == callers[c]
           r == ConflictLoop(f.busy, 1, <<>>, f.event_start, f.event_end,
                             busy_blocks, DEFAULT_TZ)
       IN callers' = [callers EXCEPT ![c] =
            [@ EXCEPT !.conflicts = r.value, !.raised = r.exc,
                      !.pc = IF r.exc = "" THEN "done" ELSE "raised"]]
    /\ UNCHANGED <<busy_blocks, engine_vars>>

NextConcurrent ==
    \E c \in Callers :
        \/ CallerFindParse(c)
        \/ CallerFindGenerate(c)
        \/ CallerFindFilter(c)
        \/ CallerFindFormat(c)
        \/ CallerCheckParse(c)
        \/ CallerCheckLoop(c)

SpecConcurrent == InitConcurrent /\ [][NextConcurrent]_vars

---------------------------------------------------------------------------
(* A slot find_available_slots returned, read back from its ISO strings    *)
(* and handed to check_conflicts with the busy-block list of the search    *)

InitAgree ==
    /\ busy_blocks \in SharedLists
    /\ op = "none"
    /\ round_in = None
    /\ NoClock
    /\ Fresh

\* check_conflicts (lines 307-343) on option i of the returned list
RecheckSlot ==
    /\ op = "find" /\ pc = "done"
    /\ \E i \in 1..Len(results) :
        LET ev_start == FromIsoformat(results[i].start).dt
            ev_end == FromIsoformat(results[i].end).dt
            c == CheckConflictsAlone(ev_start, ev_end, busy_blocks, DEFAULT_TZ)
        IN /\ event_start' = ev_start /\ event_end' = ev_end
           /\ conflicts' = c.value
           /\ raised' = c.exc
           /\ pc' = IF c.exc = "" THEN "done" ELSE "raised"
    /\ op' = "recheck"
    /\ UNCHANGED <<api, gen_frame, callers, now, timeframe, busy_blocks, search_start,
                   search_end, duration_min, work_start, work_end,
                   max_results, busy, candidates, available, results,
                   round_in, round_out>>

NextAgree == Next \/ RecheckSlot

SpecAgree == InitAgree /\ [][NextAgree]_vars

---------------------------------------------------------------------------
(* _generate_candidates one loop iteration at a time.  A call that has     *)
(* started goes on to its next step: weak fairness of the steps.           *)

\* zero and negative durations beside the usual ones
LoopDurations == {0 - 30, 0, 30, 60}

InitLoops ==
    /\ busy_blocks = <<>>
    /\ op = "generate"
    /\ round_in = None
    /\ NoClock
    /\ pc = "idle"
    /\ search_start \in SearchStarts
    /\ search_end \in SearchEnds
    /\ duration_min \in LoopDurations
    /\ \E w \in WorkHours \cup InvalidWorkHours :
          work_start = w[1] /\ work_end = w[2]
    /\ max_results = 0
    /\ event_start = None /\ event_end = None
    /\ busy = <<>> /\ candidates = <<>> /\ available = <<>>
    /\ results = <<>> /\ conflicts = <<>>
    /\ raised = ""
    /\ round_out = None
    /\ gen_frame = NoFrame
    /\ api = NoApi

\* what the loop steps leave alone
loop_rest ==
    <<busy_blocks, op, duration_min, work_start, work_end, max_results,
      event_start, event_end, busy, available, results, conflicts, raised,
      round_in, round_out, now, timeframe, callers, api>>

\* end_date = search_end.date()
EndDate == DateOf(search_end)

\* lines 119-131
GenEnter ==
    /\ op = "generate" /\ pc = "idle"
    /\ candidates' = <<>>
    /\ search_start' = EnsureAware(search_start, DEFAULT_TZ)
    /\ search_end' = EnsureAware(search_end, DEFAULT_TZ)
    /\ gen_frame' = [gen_frame EXCEPT
                        !.current_date =
                            DateOf(EnsureAware(search_start, DEFAULT_TZ))]
    /\ pc' = "outer"
    /\ UNCHANGED loop_rest

\* GenSkipWeekend with "continue" alone: the day cursor stays on the Saturday
GenSkipWeekend_NoAdvance ==
    /\ op = "generate" /\ pc = "outer"
    /\ gen_frame.current_date <= EndDate
    /\ Weekday(gen_frame.current_date) >= 5
    /\ gen_frame' = gen_frame
    /\ UNCHANGED <<pc, candidates, search_start, search_end, loop_rest>>

\* lines 133-137: a weekend day
GenSkipWeekend ==
    /\ op = "generate" /\ pc = "outer"
    /\ gen_frame.current_date <= EndDate
    /\ Weekday(gen_frame.current_date) >= 5
    /\ gen_frame' = [gen_frame EXCEPT !.current_date = @ + 1]
    /\ UNCHANGED <<pc, candidates, search_start, search_end, loop_rest>>

\* lines 133-146: a business day, up to the inner loop
GenOpenDay ==
    /\ op = "generate" /\ pc = "outer"
    /\ gen_frame.current_date <= EndDate
    /\ Weekday(gen_frame.current_date) < 5
    /\ LET day_start == Combine(gen_frame.current_date, work_start, DEFAULT_TZ)
           day_end == Combine(gen_frame.current_date, work_end, DEFAULT_TZ)
       IN gen_frame' =
            [gen_frame EXCEPT
                !.slot_start = RoundUpToIncrement(PyMax(day_start, search_start),
                                                  SLOT_INCREMENT_MIN),
                !.day_limit = PyMin(day_end, search_end)]
    /\ pc' = "inner"
    /\ UNCHANGED <<candidates, search_start, search_end, loop_rest>>

\* lines 148-151: one iteration of the inner loop
GenSlot ==
    /\ op = "generate" /\ pc = "inner"
    /\ Le(AddMinutes(gen_frame.slot_start, duration_min), gen_frame.day_limit)
    /\ candidates' =
          Append(candidates,
                 <<gen_frame.slot_start,
                   AddMinutes(gen_frame.slot_start, duration_min)>>)
    /\ gen_frame' = [gen_frame EXCEPT
                        !.slot_start = AddMinutes(@, SLOT_INCREMENT_MIN)]
    /\ UNCHANGED <<pc, search_start, search_end, loop_rest>>

\* lines 148, 153: the inner loop ends, the day cursor moves on
GenCloseDay ==
    /\ op = "generate" /\ pc = "inner"
    /\ ~Le(AddMinutes(gen_frame.slot_start, duration_min), gen_frame.day_limit)
    /\ gen_frame' = [gen_frame EXCEPT !.current_date = @ + 1]
    /\ pc' = "outer"
    /\ UNCHANGED <<candidates, search_start, search_end, loop_rest>>

\* lines 133, 155: the outer loop ends
GenReturn ==
    /\ op = "generate" /\ pc = "outer"
    /\ gen_frame.current_date > EndDate
    /\ pc' = "returned"
    /\ UNCHANGED <<gen_frame, candidates, search_start, search_end, loop_rest>>

NextLoops ==
    \/ GenEnter
    \/ GenSkipWeekend
    \/ GenOpenDay
    \/ GenSlot
    \/ GenCloseDay
    \/ GenReturn

SpecLoops == InitLoops /\ [][NextLoops]_vars /\ WF_vars(NextLoops)

---------------------------------------------------------------------------
(* integrations.py: _google_api_get and _google_api_post, which differ in  *)
(* the HTTP method alone.  The servers answer as they please.              *)

\* what the API answers: success, bad request, expired token, forbidden,
\* not found, server error
ApiStatuses == {200, 400, 401, 403, 404, 500}

\* what the token endpoint answers to a refresh: a status, and a JSON body
\* with or without an access_token and a new refresh_token
RefreshAnswers ==
    { [status |-> 200, access_token |-> a, refresh_token |-> r] :
        a \in {"at1", ""}, r \in {"rt1", ""} }
    \cup {[status |-> 400, access_token |-> "", refresh_token |-> ""]}

\* f"Bearer {token}"; a missing access_token is None, spelled "None"
Bearer(token) == IF token = "" THEN "None" ELSE token

\* _can_refresh
CanRefresh(token, cfg) == token.refresh_token # "" /\ cfg

InitGoogle ==
    /\ busy_blocks = <<>>
    /\ op = "google"
    /\ round_in = None
    /\ NoClock
    /\ pc = "idle"
    /\ search_start = None /\ search_end = None
    /\ duration_min = 0 /\ max_results = 0
    /\ work_start = 0 /\ work_end = 0
    /\ event_start = None /\ event_end = None
    /\ busy = <<>> /\ candidates = <<>> /\ available = <<>>
    /\ results = <<>> /\ conflicts = <<>>
    /\ raised = ""
    /\ round_out = None
    /\ gen_frame = NoFrame
    /\ \E m \in {"GET", "POST"}, c \in BOOLEAN,
          f \in {NoTokenFile, TokenFile("", "rt0"), TokenFile("at0", ""),
                 TokenFile("at0", "rt0")} :
          api = [NoApi EXCEPT !.method = m, !.cfg = c, !.token_file = f,
                              !.original = f]

\* everything but api
google_rest ==
    <<busy_blocks, op, pc, search_start, search_end, duration_min,
      work_start, work_end, max_results, event_start, event_end, busy,
      candidates, available, results, conflicts, raised, round_in,
      round_out, now, timeframe, callers, gen_frame>>

\* _get_google_access_token, lines 163-176
ApiGetAccessToken ==
    /\ op = "google" /\ api.pc = "idle"
    /\ api' = IF ~api.token_file.present \/ api.token_file.access_token = ""
              THEN [api EXCEPT !.pc = "raised", !.outcome = "error"]
              ELSE [api EXCEPT !.pc = "request",
                               !.token = api.token_file.access_token]
    /\ UNCHANGED google_rest

\* the first request, lines 188-193 and 222-227
ApiRequest ==
    /\ op = "google" /\ api.pc = "request"
    /\ \E st \in ApiStatuses :
        api' = [api EXCEPT
            !.requests = Append(@, [method |-> api.method,
                                    bearer |-> Bearer(api.token)]),
            !.responses = Append(@, st),
            !.status = st,
            !.pc = IF st = 401 THEN "on401" ELSE "check"]
    /\ UNCHANGED google_rest

\* lines 195-197 and 229-231: the token is read again and _can_refresh asked
ApiOn401 ==
    /\ op = "google" /\ api.pc = "on401"
    /\ api' = [api EXCEPT
            !.saved = api.token_file,
            !.pc = IF CanRefresh(api.token_file, api.cfg) THEN "refresh"
                   ELSE "check"]
    /\ UNCHANGED google_rest

\* ApiRefresh saving the token as the endpoint returned it
ApiRefresh_SavesAnswerAsIs ==
    /\ op = "google" /\ api.pc = "refresh"
    /\ IF api.saved.refresh_token = "" \/ ~api.cfg
       THEN api' = [api EXCEPT !.pc = "raised", !.outcome = "error"]
       ELSE \E ans \in RefreshAnswers :
            IF ans.status # 200
            THEN api' = [api EXCEPT
                    !.refreshes = Append(@, ans.status),
                    !.pc = "raised", !.outcome = "error"]
            ELSE LET refreshed == TokenFile(ans.access_token,
                                            ans.refresh_token)
                 IN api' = [api EXCEPT
                    !.refreshes = Append(@, ans.status),
                    !.token_file = refreshed,
                    !.token = refreshed.access_token,
                    !.pc = "retry"]
    /\ UNCHANGED google_rest

\* _refresh_google_token, lines 124-160, and token2 of lines 198 and 232
ApiRefresh ==
    /\ op = "google" /\ api.pc = "refresh"
    /\ IF api.saved.refresh_token = "" \/ ~api.cfg
       THEN api' = [api EXCEPT !.pc = "raised", !.outcome = "error"]
       ELSE \E ans \in RefreshAnswers :
            IF ans.status # 200
            THEN api' = [api EXCEPT
                    !.refreshes = Append(@, ans.status),
                    !.pc = "raised", !.outcome = "error"]
            ELSE LET refreshed == TokenFile(ans.access_token,
                                            api.saved.refresh_token)
                 IN api' = [api EXCEPT
                    !.refreshes = Append(@, ans.status),
                    !.token_file = refreshed,
                    !.token = refreshed.access_token,
                    !.pc = "retry"]
    /\ UNCHANGED google_rest

\* the second request, lines 199-204 and 233-238
ApiRetry ==
    /\ op = "google" /\ api.pc = "retry"
    /\ \E st \in ApiStatuses :
        api' = [api EXCEPT
            !.requests = Append(@, [method |-> api.method,
                                    bearer |-> Bearer(api.token)]),
            !.responses = Append(@, st),
            !.status = st,
            !.pc = "check"]
    /\ UNCHANGED google_rest

\* lines 206-215 and 240-249: any status >= 400 is raised, else r.json()
ApiCheck ==
    /\ op = "google" /\ api.pc = "check"
    /\ api' = IF api.status >= 400
              THEN [api EXCEPT !.pc = "raised", !.outcome = "error"]
              ELSE [api EXCEPT !.pc = "done", !.outcome = "returned"]
    /\ UNCHANGED google_rest

NextGoogle ==
    \/ ApiGetAccessToken
    \/ ApiRequest
    \/ ApiOn401
    \/ ApiRefresh
    \/ ApiRetry
    \/ ApiCheck

SpecGoogle == InitGoogle /\ [][NextGoogle]_vars

---------------------------------------------------------------------------
(* Properties *)

\* find_available_slots has returned
FindDone == op = "find" /\ pc = "done"

\* the datetime an output string spells
Spelled(text) == FromIsoformat(text).dt

\* C1: every slot find_available_slots returns overlaps (slot.start <
\* busy.end and slot.end > busy.start) none of the intervals normalized from
\* the busy-block list of the same call.
C1_NoReturnedSlotOverlapsBusy ==
    FindDone =>
        \A i \in 1..Len(results), k \in 1..Len(busy) :
            ~(Lt(Spelled(results[i].start), busy[k][2])
              /\ Lt(busy[k][1], Spelled(results[i].end)))

\* a call that returned slots although an earlier candidate was busy
C1_Witness ==
    /\ FindDone /\ Len(results) >= 2 /\ Len(busy) >= 2
    /\ \E k \in 1..Len(busy) :
           /\ Lt(candidates[1][1], busy[k][2])
           /\ Lt(busy[k][1], candidates[1][2])

\* the candidates that overlap no busy interval, in generation order
FreeCandidates ==
    SelectSeq(candidates,
              LAMBDA c : \A k \in 1..Len(busy) :
                            ~(Lt(c[1], busy[k][2]) /\ Lt(busy[k][1], c[2])))

UppercaseLetters ==
    <<"A", "B", "C", "D", "E", "F", "G", "H", "I", "J", "K", "L", "M", "N",
      "O", "P", "Q", "R", "S", "T", "U", "V", "W", "X", "Y", "Z">>

\* C2: for 1 <= max_results <= 26 the result is exactly the first
\* min(max_results, n) free candidates in generation order, the i-th
\* labelled "Option " and the i-th uppercase letter.
C2_FirstFitInOrderWithLabels ==
    (FindDone /\ max_results >= 1 /\ max_results <= 26) =>
        LET n == Len(FreeCandidates)
            m == IF max_results < n THEN max_results ELSE n
        IN /\ Len(results) = m
           /\ \A i \in 1..m :
                /\ Spelled(results[i].start) = FreeCandidates[i][1]
                /\ Spelled(results[i].end) = FreeCandidates[i][2]
                /\ results[i].label = <<"Option ", UppercaseLetters[i]>>

\* the cap cut the list short, behind a busy candidate
C2_Witness ==
    /\ FindDone /\ max_results = 2 /\ Len(results) = 2
    /\ Len(FreeCandidates) > 2
    /\ FreeCandidates[1] # candidates[1]

\* twenty-six results, the last labelled Z
C2_WitnessZ ==
    FindDone /\ Len(results) = 26 /\ results[26].label = <<"Option ", "Z">>

\* C3: for every max_results >= 0 the number of slots returned is at most
\* max_results.
C3_AtMostMaxResults == FindDone => Len(results) <= max_results


\* check_conflicts has returned
CheckDone == op = "check" /\ pc = "done"

\* the normalized busy intervals that overlap the proposed interval
Hits ==
    SelectSeq(busy, LAMBDA b : Lt(event_start, b[2]) /\ Lt(b[1], event_end))

\* C4: check_conflicts returns one ConflictRecord for each normalized busy
\* interval overlapping [event_start, event_end) under the half-open test,
\* none for any other interval, in ascending order of the intervals' starts.
C4_OneRecordPerOverlapInOrder ==
    CheckDone =>
        /\ Len(conflicts) = Len(Hits)
        /\ \A k \in 1..Len(Hits) :
            /\ conflicts[k].start = Strftime(Hits[k][1])
            /\ conflicts[k].end = Strftime(Hits[k][2])
        /\ \A k, l \in 1..Len(Hits) : k < l => ~Lt(Hits[l][1], Hits[k][1])

\* two distinct busy blocks, listed latest first, overlap the proposed
\* interval
C4_Witness ==
    /\ CheckDone /\ Len(conflicts) = 2 /\ Len(busy_blocks) = 2
    /\ Lt(Hits[1][1], Hits[2][1])
    /\ FromIsoformat(busy_blocks[1].start).exc = ""
    /\ Eq(EnsureAware(FromIsoformat(busy_blocks[1].start).dt, DEFAULT_TZ),
          Hits[2][1])

\* record i of the caller's list yields an interval
WellFormed(i) ==
    /\ FromIsoformat(busy_blocks[i].start).exc = ""
    /\ FromIsoformat(busy_blocks[i].end).exc = ""

\* the interval record i is normalized to
IntervalOf(i) ==
    <<EnsureAware(FromIsoformat(busy_blocks[i].start).dt, DEFAULT_TZ),
      EnsureAware(FromIsoformat(busy_blocks[i].end).dt, DEFAULT_TZ)>>

WellFormedIndices == {i \in 1..Len(busy_blocks) : WellFormed(i)}

\* how many well-formed records come before record i in ascending order of
\* start, records with equal starts in input order
Rank(i) ==
    Cardinality({j \in WellFormedIndices :
                    \/ Lt(IntervalOf(j)[1], IntervalOf(i)[1])
                    \/ (~Lt(IntervalOf(i)[1], IntervalOf(j)[1]) /\ j < i)})

\* the record normalized to the k-th interval
SourceOf(k) == CHOOSE i \in WellFormedIndices : Rank(i) = k - 1

\* the records whose intervals overlap the proposed interval, in that order
HitSources ==
    SelectSeq([k \in 1..Cardinality(WellFormedIndices) |-> SourceOf(k)],
              LAMBDA i : /\ Lt(event_start, IntervalOf(i)[2])
                         /\ Lt(IntervalOf(i)[1], event_end))

\* C5: each ConflictRecord carries the title of the record its interval was
\* normalized from when that record has one, and "Busy" otherwise, also when
\* records share a start instant or a malformed record has the same start.
C5_TitleOfOriginalRecord ==
    CheckDone =>
        /\ Len(conflicts) = Len(HitSources)
        /\ \A k \in 1..Len(HitSources) :
            conflicts[k].title =
                IF busy_blocks[HitSources[k]].title.kind = "absent"
                THEN "Busy"
                ELSE busy_blocks[HitSources[k]].title.s

\* every value under 'start' and 'end' is a string, or the key is absent
OnlyStrings ==
    \A i \in 1..Len(busy_blocks) :
        /\ busy_blocks[i].start.kind \in {"absent", "text", "iso"}
        /\ busy_blocks[i].end.kind \in {"absent", "text", "iso"}

\* _parse_busy_blocks was called
Parsed == op \in {"find", "check"}

\* C6: normalization drops every record that lacks 'start' or 'end' or whose
\* 'start' or 'end' string cannot be parsed, and emits one interval for every
\* other record, wherever the malformed records sit; no exception is raised.
C6_MalformedDroppedOthersKept ==
    (Parsed /\ OnlyStrings) =>
        /\ raised = ""
        /\ Len(busy) = Cardinality(WellFormedIndices)
        /\ \A i \in WellFormedIndices :
            Cardinality({k \in 1..Len(busy) : busy[k] = IntervalOf(i)})
                = Cardinality({j \in WellFormedIndices :
                                  IntervalOf(j) = IntervalOf(i)})

\* a record missing 'end' ahead of a well-formed one: one interval
C6_Witness ==
    /\ Parsed /\ OnlyStrings /\ Len(busy_blocks) = 2 /\ Len(busy) = 1
    /\ busy_blocks[1].end.kind = "absent"
    /\ busy_blocks[1].start.kind = "iso"
    /\ WellFormed(2)

\* C7: whatever the records' 'start' and 'end' hold (absent, empty or
\* unparsable string, null), find_available_slots and check_conflicts
\* complete and return a result.
C7_NeverRaises == Parsed => (raised = "" /\ pc # "raised")

\* _generate_candidates has returned
Generated == op = "find" /\ pc \in {"generated", "filtered", "done"}

\* _generate_candidates has just returned
JustGenerated == op = "find" /\ pc = "generated"

\* the search window as _generate_candidates reads it
WinStart == EnsureAware(search_start, DEFAULT_TZ)
WinEnd == EnsureAware(search_end, DEFAULT_TZ)

\* C8: no candidate has a date that is a Saturday or a Sunday, and for a
\* window lying entirely on a Saturday the returned list is empty.
C8_NoWeekendCandidates ==
    /\ Generated =>
          \A k \in 1..Len(candidates) : Weekday(DateOf(candidates[k][1])) < 5
    /\ (FindDone /\ DateOf(WinStart) = DateOf(WinEnd)
                 /\ Weekday(DateOf(WinStart)) = 5) => results = <<>>

\* a window from Friday over the weekend into Monday, with candidates on both
C8_Witness ==
    /\ Generated /\ DateOf(WinStart) = 4 /\ DateOf(WinEnd) = 7
    /\ \E k \in 1..Len(candidates) : DateOf(candidates[k][1]) = 7
    /\ \E k \in 1..Len(candidates) : DateOf(candidates[k][1]) = 4

\* a window entirely on a Saturday, with a non-empty busy list
C8_WitnessSaturday ==
    /\ FindDone /\ DateOf(WinStart) = 5 /\ DateOf(WinEnd) = 5
    /\ Lt(WinStart, WinEnd) /\ Len(busy) > 0

\* the instants of day d whose minute is :00 or :30, seconds zero
Boundaries(d) ==
    {DT(d, hh, mm, 0, 0, DEFAULT_TZ) : hh \in 0..23, mm \in {0, 30}}

\* a candidate of length duration_min starts at b
EmittedAt(b) ==
    \E k \in 1..Len(candidates) :
        /\ Eq(candidates[k][1], b)
        /\ Eq(candidates[k][2], AddMinutes(b, duration_min))

\* the effective (clipped) start and end of business day d
EffectiveStart(d) ==
    LET day_start == Combine(d, work_start, DEFAULT_TZ) IN
    IF Lt(day_start, WinStart) THEN WinStart ELSE day_start
EffectiveEnd(d) ==
    LET day_end == Combine(d, work_end, DEFAULT_TZ) IN
    IF Lt(WinEnd, day_end) THEN WinEnd ELSE day_end

\* C9: on every business day of the window every candidate ends at or
\* before the effective end E; the candidate starting at the last increment
\* boundary that is <= E - duration (and not before the effective start) is
\* emitted, and none starts one increment later.
C9_BoundaryFit ==
    JustGenerated =>
        \A d \in DateOf(WinStart)..DateOf(WinEnd) :
            Weekday(d) < 5 =>
                /\ \A k \in 1..Len(candidates) :
                      DateOf(candidates[k][1]) = d
                          => Le(candidates[k][2], EffectiveEnd(d))
                /\ \A b \in Boundaries(d) :
                      ( /\ Le(EffectiveStart(d), b)
                        /\ Le(AddMinutes(b, duration_min), EffectiveEnd(d))
                        /\ Lt(EffectiveEnd(d),
                              AddMinutes(b, duration_min + SLOT_INCREMENT_MIN)) )
                      => /\ EmittedAt(b)
                         /\ ~EmittedAt(AddMinutes(b, SLOT_INCREMENT_MIN))

\* the last candidate of a day ends exactly at a clipped end, and the last
\* candidate of another day ends short of one that is no boundary
C9_Witness ==
    /\ Generated /\ duration_min = 60
    /\ \E k \in 1..Len(candidates) :
          /\ DateOf(candidates[k][1]) = 7
          /\ Eq(candidates[k][2], WinEnd)
    /\ \E k \in 1..Len(candidates) :
          /\ DateOf(candidates[k][1]) = 4
          /\ Eq(candidates[k][2], EffectiveEnd(4))


\* _round_up_to_increment has returned
RoundDone == op = "round" /\ pc = "done"

\* dt lies on an increment boundary: minute a multiple of 30, no seconds,
\* no microseconds
OnBoundary(dt) == (dt.sec % (SLOT_INCREMENT_MIN * 60)) = 0 /\ dt.us = 0

\* C10: _round_up_to_increment(dt, 30) returns the earliest instant >= dt on
\* a 30-minute boundary: dt itself when it lies on one (09:00:00.000 stays),
\* else the next boundary (09:07 -> 09:30, 09:00:30 -> 09:30, 09:59 ->
\* 10:00); it never moves the time backwards, nor by a full increment.
C10_RoundUpToNextBoundary ==
    RoundDone =>
        /\ OnBoundary(round_out)
        /\ Le(round_in, round_out)
        /\ Lt(round_out, AddMinutes(round_in, SLOT_INCREMENT_MIN))
        /\ OnBoundary(round_in) => round_out = round_in
        /\ round_out.tz = round_in.tz
        /\ round_in = DT(4, 9, 0, 0, 0, DEFAULT_TZ)
              => round_out = DT(4, 9, 0, 0, 0, DEFAULT_TZ)
        /\ round_in = DT(4, 9, 7, 0, 0, DEFAULT_TZ)
              => round_out = DT(4, 9, 30, 0, 0, DEFAULT_TZ)
        /\ round_in = DT(4, 9, 0, 30, 0, DEFAULT_TZ)
              => round_out = DT(4, 9, 30, 0, 0, DEFAULT_TZ)
        /\ round_in = DT(4, 9, 59, 0, 0, DEFAULT_TZ)
              => round_out = DT(4, 10, 0, 0, 0, DEFAULT_TZ)

\* 09:00:30 was rounded, to 09:30
C10_Witness ==
    /\ RoundDone
    /\ round_in = DT(4, 9, 0, 30, 0, DEFAULT_TZ)
    /\ round_out = DT(4, 9, 30, 0, 0, DEFAULT_TZ)


\* the busy list of scenarios A and B, on Friday
ScenarioBusy ==
    << [title |-> Text("Morning Standup"),
        start |-> Iso(4, 9, 0, 0, 0, "-05:00"),
        end |-> Iso(4, 9, 30, 0, 0, "-05:00")],
       [title |-> Text("Team Sync"),
        start |-> Iso(4, 10, 0, 0, 0, "-05:00"),
        end |-> Iso(4, 11, 0, 0, 0, "-05:00")],
       [title |-> Text("Lunch Break"),
        start |-> Iso(4, 12, 0, 0, 0, "-05:00"),
        end |-> Iso(4, 13, 0, 0, 0, "-05:00")],
       [title |-> Text("1-on-1 with Manager"),
        start |-> Iso(4, 15, 0, 0, 0, "-05:00"),
        end |-> Iso(4, 15, 30, 0, 0, "-05:00")] >>

\* scenario A: Friday is the window's one business day, all of its working
\* hours 09:00-17:00 lie in the window, 30-minute slots, three results
ScenarioA ==
    /\ FindDone /\ busy_blocks = ScenarioBusy
    /\ DateOf(WinStart) = 4 /\ DateOf(WinEnd) \in {4, 5, 6}
    /\ Le(WinStart, DT(4, 9, 0, 0, 0, DEFAULT_TZ))
    /\ Le(DT(4, 17, 0, 0, 0, DEFAULT_TZ), WinEnd)
    /\ work_start = 9 * 3600 /\ work_end = 17 * 3600
    /\ duration_min = 30 /\ max_results = 3

\* C11: in scenario A find_available_slots returns exactly the slots
\* 09:30-10:00, 11:00-11:30 and 11:30-12:00, in that order.
C11_ScenarioA ==
    ScenarioA =>
        /\ Len(results) = 3
        /\ results[1].start = Iso(4, 9, 30, 0, 0, "-05:00")
        /\ results[1].end = Iso(4, 10, 0, 0, 0, "-05:00")
        /\ results[2].start = Iso(4, 11, 0, 0, 0, "-05:00")
        /\ results[2].end = Iso(4, 11, 30, 0, 0, "-05:00")
        /\ results[3].start = Iso(4, 11, 30, 0, 0, "-05:00")
        /\ results[3].end = Iso(4, 12, 0, 0, 0, "-05:00")

\* scenario A was run and returned
C11_Witness == ScenarioA /\ Len(results) = 3 /\ Len(candidates) = 16


\* the filter loop of find_available_slots has run
Filtered == op = "find" /\ pc \in {"filtered", "done"}

\* intervals a and b share an endpoint: one starts where the other ends
Touches(a, b) == Eq(a[1], b[2]) \/ Eq(a[2], b[1])

\* interval a and b overlap, half-open: each starts strictly before the
\* other ends
StrictlyOverlap(a, b) == Lt(a[1], b[2]) /\ Lt(b[1], a[2])

\* C12: touching endpoints never count as overlap.  A candidate that touches
\* a busy interval and overlaps none is accepted when the cap is not yet
\* reached; a busy interval that touches the proposed interval yields no
\* ConflictRecord; in scenario B (10:30-11:30) check_conflicts returns one
\* record, for the 10:00-11:00 block.
C12_TouchingIsNoOverlap ==
    /\ (Filtered /\ max_results >= 1) =>
          \A k \in 1..Len(candidates) :
              ( /\ \E b \in 1..Len(busy) : Touches(candidates[k], busy[b])
                /\ \A b \in 1..Len(busy) :
                       ~StrictlyOverlap(candidates[k], busy[b])
                /\ Cardinality({j \in 1..(k - 1) :
                       \A b \in 1..Len(busy) :
                           ~StrictlyOverlap(candidates[j], busy[b])})
                     < max_results )
              => \E j \in 1..Len(available) : available[j] = candidates[k]
    /\ CheckDone =>
          \A b \in 1..Len(busy) :
              Touches(<<event_start, event_end>>, busy[b])
              => ~\E c \in 1..Len(conflicts) :
                     /\ conflicts[c].start = Strftime(busy[b][1])
                     /\ conflicts[c].end = Strftime(busy[b][2])
    /\ ( /\ CheckDone /\ busy_blocks = ScenarioBusy
         /\ event_start = DT(4, 10, 30, 0, 0, DEFAULT_TZ)
         /\ event_end = DT(4, 11, 30, 0, 0, DEFAULT_TZ) )
       => conflicts =
            << [title |-> "Team Sync",
                start |-> [hour12 |-> 10, minute |-> 0, ampm |-> "AM"],
                end |-> [hour12 |-> 11, minute |-> 0, ampm |-> "AM"]] >>

\* 09:30-10:00 starts where one busy block ends and ends where the next
\* starts, and is the first slot accepted
C12_Witness ==
    /\ Filtered /\ busy_blocks = ScenarioBusy /\ Len(available) >= 1
    /\ Eq(available[1][1], busy[1][2])
    /\ Eq(available[1][2], busy[2][1])

\* the proposed interval 09:30-10:00 touches two busy blocks and conflicts
\* with none
C12_WitnessCheck ==
    /\ CheckDone /\ busy_blocks = ScenarioBusy /\ conflicts = <<>>
    /\ Eq(event_start, busy[1][2]) /\ Eq(event_end, busy[2][1])

\* scenario B was run
C12_WitnessScenarioB ==
    /\ CheckDone /\ busy_blocks = ScenarioBusy /\ Len(conflicts) = 1
    /\ event_start = DT(4, 10, 30, 0, 0, DEFAULT_TZ)
    /\ event_end = DT(4, 11, 30, 0, 0, DEFAULT_TZ)


\* the filter loop has just run: every candidate it scanned went through
\* _overlaps_any
JustFiltered == op = "find" /\ pc = "filtered"

\* C13: the overlap test is symmetric: testing a slot against a busy
\* interval answers as testing that busy interval against the slot.
C13_OverlapSymmetric ==
    JustFiltered =>
        \A k \in 1..Len(candidates), b \in 1..Len(busy) :
            OverlapsAny(candidates[k][1], candidates[k][2], <<busy[b]>>)
              = OverlapsAny(busy[b][1], busy[b][2], <<candidates[k]>>)

\* a candidate that begins before a busy interval and runs into it: the test
\* says overlap both ways round
C13_Witness ==
    /\ JustFiltered
    /\ \E k \in 1..Len(candidates), b \in 1..Len(busy) :
        /\ Lt(candidates[k][1], busy[b][1])
        /\ OverlapsAny(candidates[k][1], candidates[k][2], <<busy[b]>>)
        /\ OverlapsAny(busy[b][1], busy[b][2], <<candidates[k]>>)


\* _parse_busy_blocks has just returned its list
JustParsed == (op = "find" /\ pc = "parsed") \/ CheckDone

\* C14: the output of _parse_busy_blocks is in ascending order of start, and
\* records with equal starts keep their input order.
C14_SortedAndStable ==
    JustParsed =>
        /\ \A k, l \in 1..Len(busy) : k < l => ~Lt(busy[l][1], busy[k][1])
        /\ Len(busy) = Cardinality(WellFormedIndices)
        /\ \A k \in 1..Len(busy) : busy[k] = IntervalOf(SourceOf(k))

\* two records with one start and different ends, the longer listed first,
\* come out in the order given
C14_Witness ==
    /\ JustParsed /\ Len(busy_blocks) = 2 /\ Len(busy) = 2
    /\ Eq(busy[1][1], busy[2][1]) /\ Lt(busy[2][2], busy[1][2])
    /\ busy[1] = IntervalOf(1)

\* two records listed latest first come out earliest first
C14_WitnessReordered ==
    /\ JustParsed /\ Len(busy_blocks) = 2 /\ Len(busy) = 2
    /\ Lt(busy[1][1], busy[2][1])
    /\ busy[1] = IntervalOf(2)


\* C15: normalization neither deduplicates nor merges: it outputs as many
\* intervals as there are well-formed records, each the interval of a record,
\* so identical or nested records all appear, and check_conflicts emits a
\* record for each of them that overlaps the proposed interval.
C15_NoDeduplication ==
    JustParsed =>
        /\ Len(busy) = Cardinality(WellFormedIndices)
        /\ \A k \in 1..Len(busy) :
              \E i \in WellFormedIndices : busy[k] = IntervalOf(i)
        /\ CheckDone =>
              Len(conflicts) =
                  Cardinality({i \in WellFormedIndices :
                      /\ Lt(event_start, IntervalOf(i)[2])
                      /\ Lt(IntervalOf(i)[1], event_end)})

\* the same record twice: two intervals, two conflict records
C15_Witness ==
    /\ CheckDone /\ Len(busy_blocks) = 2
    /\ busy_blocks[1] = busy_blocks[2]
    /\ Len(busy) = 2 /\ busy[1] = busy[2]
    /\ Len(conflicts) = 2

\* one record nested in another: two intervals, two conflict records
C15_WitnessNested ==
    /\ CheckDone /\ Len(busy) = 2 /\ Len(conflicts) = 2
    /\ Eq(busy[1][1], busy[2][1]) /\ Lt(busy[1][2], busy[2][2])


\* the search window is invalid: it ends before it starts, or the working
\* hours end when or before they start
InvalidWindow == Lt(WinEnd, WinStart) \/ work_end <= work_start

\* C16: whenever search_end < search_start or work_end <= work_start, with
\* duration > 0, find_available_slots returns an empty list and does not
\* raise, for every busy list of records with string values.
C16_InvalidWindowGivesEmptyResult ==
    (op = "find" /\ InvalidWindow /\ duration_min > 0) =>
        /\ OnlyStrings => (raised = "" /\ pc # "raised")
        /\ Generated => candidates = <<>>
        /\ FindDone => results = <<>>

\* a window that ends on the business day it starts on, before it starts,
\* with busy intervals present
C16_Witness ==
    /\ FindDone /\ Lt(WinEnd, WinStart) /\ work_start < work_end
    /\ DateOf(WinStart) = 4 /\ DateOf(WinEnd) = 4
    /\ Len(busy) > 0 /\ results = <<>>

\* working hours 17:00-09:00 over a valid window
C16_WitnessWorkHours ==
    /\ FindDone /\ Lt(WinStart, WinEnd) /\ work_end < work_start
    /\ DateOf(WinStart) = 4 /\ DateOf(WinEnd) = 7
    /\ results = <<>>


\* timeframe_to_range has returned
TimeframeDone == op = "timeframe" /\ pc = "done"

\* the timeframe is, in whatever case and padding, one of the keywords
IsKeyword ==
    /\ timeframe.kind = "str"
    /\ timeframe.body \in {"today", "tomorrow", "this week", "next week",
                           "monday", "tuesday", "wednesday", "thursday",
                           "friday", "saturday", "sunday"}

C18_WitnessNone ==
    TimeframeDone /\ timeframe.kind = "none" /\ search_start = now


\* the outcome of caller c's call had it run with nobody else around, over
\* the list as the caller handed it over
Alone(c) ==
    LET f == callers[c] IN
    IF f.op = "find"
    THEN FindAvailableSlots(f.given, f.search_start, f.search_end,
                            f.duration_min, f.work_start, f.work_end,
                            f.max_results, DEFAULT_TZ)
    ELSE CheckConflictsAlone(f.event_start, f.event_end, f.given, DEFAULT_TZ)

Returned(c) == callers[c].pc = "done"
Left(c) == callers[c].pc \in {"done", "raised"}

\* what caller c got back
Outcome(c) ==
    [exc |-> callers[c].raised,
     value |-> IF callers[c].raised # "" THEN <<>>
               ELSE IF callers[c].op = "find" THEN callers[c].results
               ELSE callers[c].conflicts]

\* C19: no call of find_available_slots or check_conflicts modifies the
\* busy-block list it was given, and a call interleaved with another
\* caller's over the same list returns what it returns when run alone.
C19_CallsDoNotInterfere ==
    \A c \in DOMAIN callers :
        /\ callers[c].pc # "idle" => busy_blocks = callers[c].given
        /\ Left(c) => Outcome(c) = Alone(c)

\* a check that found a conflict returned while a search over the same list
\* was between its parse and its filter, and the search returned slots after
C19_Witness ==
    /\ op = "concurrent"
    /\ Returned(1) /\ callers[1].op = "find" /\ Len(callers[1].results) > 0
    /\ Returned(2) /\ callers[2].op = "check"
    /\ Len(callers[2].conflicts) > 0
    /\ Len(busy_blocks) = MaxBlocks

\* both callers are in the middle of their calls
C19_WitnessInterleaved ==
    /\ op = "concurrent"
    /\ callers[1].op = "find" /\ callers[1].pc = "generated"
    /\ callers[2].op = "check" /\ callers[2].pc = "parsed"
    /\ busy_blocks # <<>>


\* at least one slot has been accepted, and as many as max_results
CapReached ==
    op = "find" /\ available # <<>> /\ Len(available) >= max_results

C21_IntervalsStartBeforeEnd ==
    (Parsed /\ raised = "") => \A k \in 1..Len(busy) : Lt(busy[k][1], busy[k][2])


\* the time from a to b as seconds and microseconds
Between(a, b) == <<Utc(b) - Utc(a), b.us - a.us>>

\* C22: the candidates of _generate_candidates are in strictly increasing
\* order of start; each starts at minute 0 or 30 with zero seconds and lasts
\* exactly duration_min; two consecutive candidates of one day start 30
\* minutes apart, whatever the duration.
C22_OrderedOnBoundariesOneIncrementApart ==
    JustGenerated =>
        /\ \A k \in 1..Len(candidates) :
            /\ Minute(candidates[k][1]) \in {0, 30}
            /\ Second(candidates[k][1]) = 0 /\ candidates[k][1].us = 0
            /\ Between(candidates[k][1], candidates[k][2])
                  = <<duration_min * 60, 0>>
        /\ \A k \in 1..(Len(candidates) - 1) :
            /\ Lt(candidates[k][1], candidates[k + 1][1])
            /\ DateOf(candidates[k][1]) = DateOf(candidates[k + 1][1]) =>
                  Between(candidates[k][1], candidates[k + 1][1])
                      = <<30 * 60, 0>>

\* hour-long candidates of a Friday, half an hour apart, followed by
\* Monday's
C22_Witness ==
    /\ JustGenerated /\ duration_min = 60 /\ Len(candidates) >= 3
    /\ DateOf(candidates[1][1]) = 4 /\ DateOf(candidates[2][1]) = 4
    /\ Lt(candidates[2][1], candidates[1][2])
    /\ DateOf(candidates[Len(candidates)][1]) = 7


\* the date of an instant in the configured timezone
LocalDate(dt) == DateOf(AsTimezone(dt, DEFAULT_TZ))

\* C23: every candidate lies inside the search window and inside the working
\* hours of its own date in the configured timezone.
C23_InsideWindowAndWorkingHours ==
    JustGenerated =>
        \A k \in 1..Len(candidates) :
            LET slot == candidates[k]
                day == LocalDate(slot[1])
            IN /\ Le(WinStart, slot[1])
               /\ Le(slot[2], WinEnd)
               /\ Le([sec |-> day * SecPerDay + work_start, us |-> 0,
                      tz |-> DEFAULT_TZ], slot[1])
               /\ Le(slot[2], [sec |-> day * SecPerDay + work_end, us |-> 0,
                               tz |-> DEFAULT_TZ])

\* a search from Friday 09:07: the first candidate starts at 09:30, after
\* the search start and after the opening hour, and a later one ends with
\* the working day
C23_Witness ==
    /\ JustGenerated /\ Len(candidates) >= 2
    /\ WinStart = DT(4, 9, 7, 0, 0, DEFAULT_TZ)
    /\ candidates[1][1] = DT(4, 9, 30, 0, 0, DEFAULT_TZ)
    /\ \E k \in 1..Len(candidates) :
          candidates[k][2] = [sec |-> 4 * SecPerDay + work_end, us |-> 0,
                              tz |-> DEFAULT_TZ]


\* C24: suggestions are filtered against the busy intervals only, not
\* against one another: with a duration above the 30-minute increment, no
\* busy interval, max_results >= 2 and two candidates on the first day, the
\* first two options returned overlap each other by the duration less 30
\* minutes.
C24_ReturnedOptionsOverlapEachOther ==
    ( /\ FindDone /\ duration_min > 30 /\ max_results >= 2 /\ busy = <<>>
      /\ Len(candidates) >= 2
      /\ DateOf(candidates[1][1]) = DateOf(candidates[2][1]) ) =>
        /\ Len(results) >= 2
        /\ Lt(Spelled(results[2].start), Spelled(results[1].end))
        /\ Lt(Spelled(results[1].start), Spelled(results[2].end))
        /\ Between(Spelled(results[2].start), Spelled(results[1].end))
              = <<(duration_min - 30) * 60, 0>>

\* Option A 09:00-10:00 and Option B 09:30-10:30 of one Friday
C24_Witness ==
    /\ FindDone /\ duration_min = 60 /\ busy_blocks = <<>>
    /\ Len(results) >= 2
    /\ Spelled(results[1].start) = DT(4, 9, 0, 0, 0, DEFAULT_TZ)
    /\ Spelled(results[1].end) = DT(4, 10, 0, 0, 0, DEFAULT_TZ)
    /\ Spelled(results[2].start) = DT(4, 9, 30, 0, 0, DEFAULT_TZ)
    /\ Spelled(results[2].end) = DT(4, 10, 30, 0, 0, DEFAULT_TZ)


\* C25: for every timeframe keyword and every reading of the clock the
\* window timeframe_to_range returns has its start at or before its end.
C25_WindowStartNotAfterEnd ==
    (TimeframeDone /\ IsKeyword) => Le(search_start, search_end)

\* the weekday of the clock reading, Monday = 0
Today == DateOf(now)
NowWeekday == Today % 7

\* 23:59 and 00:00 of a date in the configured timezone
At2359(date) ==
    [sec |-> date * (24 * 3600) + 23 * 3600 + 59 * 60, us |-> 0,
     tz |-> DEFAULT_TZ]
At0000(date) == [sec |-> date * (24 * 3600), us |-> 0, tz |-> DEFAULT_TZ]

\* C26 as stated: for 'this week' the window runs from now to 23:59 of the
\* Friday of the current week, Saturday and Sunday included.
C26_ThisWeekEndsOnFriday ==
    (TimeframeDone /\ timeframe.body = "this week") =>
        /\ search_start = now
        /\ search_end = At2359(Today - NowWeekday + 4)

\* C26, amended: for 'this week' the window starts at now; it ends at 23:59
\* of the Friday of the current week when now falls on Monday to Friday, and
\* at 23:59 of the current day when now falls on a Saturday or a Sunday.
C26_ThisWeekEndsOnFridayOrToday ==
    (TimeframeDone /\ timeframe.body = "this week") =>
        /\ search_start = now
        /\ NowWeekday <= 4 => search_end = At2359(Today - NowWeekday + 4)
        /\ NowWeekday >= 5 => search_end = At2359(Today)

\* 'this week' asked on a Sunday morning
C26_Witness ==
    /\ TimeframeDone /\ timeframe.body = "this week"
    /\ now = DT(6, 10, 15, 30, 500000, DEFAULT_TZ)
    /\ search_end = DT(6, 23, 59, 0, 0, DEFAULT_TZ)

\* 'this week' asked on a Monday morning
C26_WitnessMonday ==
    /\ TimeframeDone /\ timeframe.body = "this week"
    /\ now = DT(0, 10, 15, 30, 500000, DEFAULT_TZ)
    /\ search_end = DT(4, 23, 59, 0, 0, DEFAULT_TZ)

WeekdayNames ==
    <<"monday", "tuesday", "wednesday", "thursday", "friday", "saturday",
      "sunday">>

\* the first date strictly after today that falls on weekday w
NextOn(w) ==
    CHOOSE d \in (Today + 1)..(Today + 7) : d % 7 = w

\* C27: for a weekday name the window is 00:00-23:59 of the next date
\* strictly after today that falls on that weekday (1 to 7 days ahead); for
\* 'next week' it is 00:00 of the first Monday strictly after today to 23:59
\* of the Friday four days later.
C27_NextNamedDayAndNextWeek ==
    TimeframeDone =>
        /\ \A i \in 1..7 :
              timeframe.body = WeekdayNames[i] =>
                  /\ search_start = At0000(NextOn(i - 1))
                  /\ search_end = At2359(NextOn(i - 1))
        /\ timeframe.body = "next week" =>
              /\ search_start = At0000(NextOn(0))
              /\ search_end = At2359(NextOn(0) + 4)

\* 'friday' asked late on a Friday: the Friday a week later
C27_Witness ==
    /\ TimeframeDone /\ timeframe.body = "friday"
    /\ now = DT(4, 23, 59, 30, 0, DEFAULT_TZ)
    /\ search_start = DT(11, 0, 0, 0, 0, DEFAULT_TZ)
    /\ search_end = DT(11, 23, 59, 0, 0, DEFAULT_TZ)

\* 'next week' asked on a Monday and on a Sunday
C27_WitnessNextWeek ==
    /\ TimeframeDone /\ timeframe.body = "next week"
    /\ \/ /\ NowWeekday = 0 /\ search_start = DT(7, 0, 0, 0, 0, DEFAULT_TZ)
          /\ search_end = DT(11, 23, 59, 0, 0, DEFAULT_TZ)
       \/ /\ NowWeekday = 6 /\ search_start = DT(7, 0, 0, 0, 0, DEFAULT_TZ)


\* check_conflicts has returned, called on its own or on a returned slot
ConflictsReturned == op \in {"check", "recheck"} /\ pc = "done"

\* C28: a slot find_available_slots returned, handed to check_conflicts with
\* the same busy-block list, yields no conflict; and check_conflicts returns
\* a non-empty list exactly when _overlaps_any is true of the interval
\* against the normalized busy list.
C28_FilterAndDetectorAgree ==
    /\ op = "recheck" => (pc = "done" /\ conflicts = <<>>)
    /\ ConflictsReturned =>
          (conflicts # <<>> <=> OverlapsAny(event_start, event_end, busy))

\* the second option of a search among two busy intervals came back clean
C28_Witness ==
    /\ op = "recheck" /\ pc = "done" /\ Len(busy) = 2 /\ Len(results) >= 2
    /\ event_start = Spelled(results[2].start)
    /\ \E k \in 1..Len(busy) :
          /\ Lt(candidates[1][1], busy[k][2])
          /\ Lt(busy[k][1], candidates[1][2])

\* check_conflicts found a conflict where _overlaps_any says so
C28_WitnessConflict ==
    /\ op = "check" /\ pc = "done" /\ conflicts # <<>>
    /\ OverlapsAny(event_start, event_end, busy)


\* _generate_candidates has returned
GenReturned == op = "generate" /\ pc = "returned"

\* C29: _generate_candidates terminates for every finite search window and
\* every integer duration_min, zero and negative included: every call
\* reaches its return.
C29_GenerateTerminates == <>GenReturned

\* a call with a negative duration over a window with a weekend in it
\* returned, with the candidates of the Friday and of the Monday
C29_Witness ==
    /\ GenReturned /\ duration_min < 0 /\ Len(candidates) >= 2
    /\ DateOf(candidates[1][1]) = 4
    /\ DateOf(candidates[Len(candidates)][1]) = 7
    /\ gen_frame.current_date = 8

\* a call with duration zero returned
C29_WitnessZero ==
    GenReturned /\ duration_min = 0 /\ candidates # <<>>


\* the Google API call is over: it returned or raised
ApiOver == api.pc \in {"done", "raised"}

\* the status of the last response received
LastStatus == api.responses[Len(api.responses)]

\* C30: a Google API call sends at most two requests to the API and
\* refreshes the token at most once; it refreshes only after a 401 and only
\* with a refresh_token and the client configuration at hand; after a
\* refresh it retries exactly once, with the refreshed access token; the
\* saved token keeps the original refresh_token; and a response of 400 or
\* above, a 401 to the retry included, ends the call with an error.
C30_OneRefreshOneRetry ==
    op = "google" =>
        /\ Len(api.requests) <= 2 /\ Len(api.refreshes) <= 1
        /\ api.refreshes # <<>> =>
              /\ api.responses # <<>> /\ api.responses[1] = 401
              /\ api.original.refresh_token # "" /\ api.cfg
        /\ Len(api.requests) = 2 =>
              /\ api.refreshes = <<200>>
              /\ api.requests[2].method = api.requests[1].method
              /\ api.requests[2].bearer =
                    (IF api.token_file.access_token = "" THEN "None"
                     ELSE api.token_file.access_token)
        /\ (ApiOver /\ api.refreshes = <<200>>) => Len(api.requests) = 2
        /\ api.refreshes = <<200>> =>
              /\ api.token_file.present
              /\ api.token_file.refresh_token = api.original.refresh_token
        /\ api.refreshes # <<200>> => api.token_file = api.original
        /\ (ApiOver /\ api.responses # <<>> /\ LastStatus >= 400) =>
              api.outcome = "error"
        /\ api.outcome = "returned" =>
              (api.responses # <<>> /\ LastStatus < 400)

\* a POST answered 401, a refresh that brought a new access token and a new
\* refresh token, the retry answered 401 again: an error, no third request
C30_Witness ==
    /\ op = "google" /\ api.pc = "raised" /\ api.method = "POST"
    /\ api.responses = <<401, 401>> /\ api.refreshes = <<200>>
    /\ api.requests[1].bearer = "at0" /\ api.requests[2].bearer = "at1"
    /\ api.token_file = TokenFile("at1", "rt0")

\* a GET answered 401 with no client configuration: no refresh, one request
C30_WitnessNoRefresh ==
    /\ op = "google" /\ api.pc = "raised" /\ api.method = "GET"
    /\ api.responses = <<401>> /\ api.refreshes = <<>> /\ ~api.cfg
    /\ api.original.refresh_token = "rt0"

\* a retry that succeeded
C30_WitnessRetried ==
    /\ op = "google" /\ api.pc = "done" /\ api.responses = <<401, 200>>

=============================================================================
